---- MODULE Spec2Model ----
(***************************************************************************)
(* Threshold strategy bot on a swap aggregator (src/src/index.ts).         *)
(*                                                                         *)
(* The specifications of this module share its variables:                  *)
(*   Spec         the strategy loop runStrategyBot with the chain and the  *)
(*                remote services as its environment;                      *)
(*   SpecCadence  the strategy loop with the time its ticks take;          *)
(*   SpecRetry    one call of getQuote / getSwapTransaction with any       *)
(*                maxRetries, against any sequence of HTTP responses;      *)
(*   SpecCalls    calls of getQuote / getSwapTransaction in a row;         *)
(*   SpecBalance  getTokenBalanceByMint on any pair of account lists;      *)
(*   SpecClose    closeATA and swapTokenToSOL (src/src/sell-and-close.ts); *)
(*   SpecCleanup  the cleanup after a sell, in the loop and in             *)
(*                swapTokenToSOL;                                          *)
(*   SpecPrice    the buy check and the sell check of a tick on given      *)
(*                quotes, thresholds and token decimals.                   *)
(* FairSpec is Spec with the fairness under which the loop makes progress. *)
(***************************************************************************)
EXTENDS Integers, Sequences, FiniteSets, TLC

VARIABLES
    \* ---- runStrategyBot: control and tick-local values
    pc,                 \* position in runStrategyBot
    tokenBalanceUnits,  \* value returned by getTokenBalanceByMint in this tick
    holding,            \* tokenBalanceUnits > 0, as computed in this tick
    checkQuote,         \* buyQuote / sellQuote of this tick (NoQuote if none)
    price,              \* priceLamportsPerToken of this tick (-1 if none)
    execQuote,          \* quoteResponse inside executeSwapOnce
    swaps,              \* swap transactions submitted in this tick
    events,             \* calls made in this tick, in order
    closeState,         \* cleanup locals: [shouldClose, tokenProgramId, balance]
    tickError,          \* what the loop's catch received in this tick ("none" if nothing)
    solBalance,         \* value returned by connection.getBalance in this tick (-1 if none)
    elapsed,            \* Date.now() - loopStartedAt: ms since this tick started
    sleepFor,           \* ms slept before this tick started (-1 if none, or past)
    latestBlockhash,    \* lastValidBlockHeight of latestBlockhash in executeSwapOnce (-1 if none)
    blockHeight,        \* block height of the chain, counted from the block whose
                        \* hash is in the swap transaction of this tick
    \* ---- outbound traffic of the process
    sent,               \* set of [to, carries] over all requests ever made
    \* ---- chain
    mintProgram,        \* program variant the configured mint lives under
    acct,               \* token account balance per program (Absent if none)
    orphans,            \* swaps still in flight after their tick ended
    extCount,           \* number of external deposits so far
    \* ---- history
    lastOk,             \* kind of the last engine swap that landed successfully
    undisturbed,        \* no external deposit and no orphaned swap so far
    liveAtRead,         \* chain total of the mint when this tick read it
    \* ---- getQuote / getSwapTransaction call frame
    rFn, rCaller, rArg, rMax, rAttempt, rPc, rSleeps, rRequests, rError, rResp,
    rHistory,           \* responses received by a call of the harness, in order
    rCalls,             \* what each earlier call in a sequence of calls did
    \* ---- getTokenBalanceByMint harness
    bStd, bExt, bPc, bResult,
    \* ---- closeATA (sell-and-close.ts) call frame
    cPc,                \* position in closeATA
    cCaller,            \* "harness" or "swapTokenToSOL"
    cProgram,           \* tokenProgramId argument
    cExisted,           \* whether the account existed when closeATA looked
    cRead,              \* the balance closeATA's lookup read, Absent if none
    cTx,                \* close transaction of this call ("none" if not sent)
    cResult,            \* "true", "false", or "threw" ("none" while running)
    cLog,               \* [existed, submitted, result] of each finished call
    \* ---- swapTokenToSOL (sell-and-close.ts)
    sPc, sResult,
    \* ---- process environment
    env,                \* the settings: raw value of each environment variable
    \* ---- the one-shot scripts
    batch,              \* sellAllTokensAndCloseATAs (sell-and-close.ts)
    once                \* buyFixedTokensOnce

loopVars ==
    <<pc, tokenBalanceUnits, holding, checkQuote, price, execQuote, swaps,
      events, closeState, tickError, solBalance, elapsed, sleepFor,
      latestBlockhash, blockHeight>>
cadenceVars == <<elapsed, sleepFor>>
heightVars == <<latestBlockhash, blockHeight>>
chainVars == <<mintProgram, acct, orphans, extCount>>
histVars == <<lastOk, undisturbed, liveAtRead>>
retryVars ==
    <<rFn, rCaller, rArg, rMax, rAttempt, rPc, rSleeps, rRequests, rError, rResp,
      rHistory, rCalls>>
balVars == <<bStd, bExt, bPc, bResult>>
closeVars ==
    <<cPc, cCaller, cProgram, cExisted, cRead, cTx, cResult, cLog, sPc, sResult>>
scriptVars == <<batch, once>>
vars ==
    <<loopVars, sent, chainVars, histVars, retryVars, balVars, closeVars, env,
      scriptVars>>

(***************************************************************************)
(* Bounds of the model.                                                    *)
(***************************************************************************)
MaxRetriesArg == 5      \* largest maxRetries passed in SpecRetry
MaxTokens == 3          \* token accounts detected in SpecBatch
MaxAccounts == 2        \* accounts per program variant in SpecBalance
MaxUnits == 1000        \* largest token balance the chain model holds
MaxExternal == 1        \* external deposits per behaviour
MaxOrphans == 1         \* swaps left in flight by failed ticks at one time
MaxCloseCalls == 2      \* calls of closeATA in a row in SpecClose
ValidityWindow == 1     \* blocks after its own for which a blockhash is valid
MaxCalls == 2           \* calls of getQuote / getSwapTransaction in a row in SpecCalls
BaselineInAmount == 18  \* IN_AMOUNT (lamports) of the baseline settings

(***************************************************************************)
(* Program constants.                                                      *)
(***************************************************************************)
DefaultMaxRetries == 3              \* maxRetries: number = 3
BackoffBaseMs == 1000
BackoffCapMs == 10000
DefaultTokenDecimals == 6           \* QUOTE_TOKEN_DECIMALS fallback
MaxPow10Decimals == 18              \* pow10: decimals > 18 is rejected
FracDigits == 9                     \* parseSolToLamports: slice(0, 9)
LamportsPerSol == 1000000000        \* parseSolToLamports: BigInt(1_000_000_000)
DefaultPriorityFeeLamports == 1000000   \* PRIORITY_FEE_LAMPORTS fallback
DefaultCheckIntervalMs == 5000          \* CHECK_INTERVAL_MS fallback
DefaultMinSolLamports == 100000         \* MIN_SOL_VALUE fallback, 0.0001 SOL

TOKEN_PROGRAM_ID == "Token"
TOKEN_2022_PROGRAM_ID == "Token2022"
Programs == {TOKEN_PROGRAM_ID, TOKEN_2022_PROGRAM_ID}
WSOL_MINT == "WSOL"
quoteMint == "QUOTE"

(***************************************************************************)
(* Decimal strings.  Amounts cross every service boundary as base-10       *)
(* strings: a string is a sequence of digits, Undefined a missing field.   *)
(***************************************************************************)
Min(a, b) == IF a <= b THEN a ELSE b
Max(a, b) == IF a >= b THEN a ELSE b

Undefined == <<-1>>

\* BigInt(str) for a base-10 string; BigInt("") is 0n.
BigIntOf(s) ==
    LET value[i \in 0..Len(s)] == IF i = 0 THEN 0 ELSE value[i - 1] * 10 + s[i]
    IN value[Len(s)]

RECURSIVE ToDecString(_)
\* bigint.toString()
ToDecString(n) ==
    IF n < 10 THEN <<n>> ELSE ToDecString(n \div 10) \o <<n % 10>>

\* JavaScript truthiness of `string | undefined`
Truthy(s) == s # Undefined /\ Len(s) > 0

(***************************************************************************)
(* bigint arithmetic.  The program's bigints have no upper limit, the      *)
(* model's integers do (2^31 - 1), so (a * 10^decimals) / b is evaluated   *)
(* on the pair [q, r] with a = q * b + r and 0 <= r < b, which is          *)
(* multiplied by ten `decimals` times: the product itself is never formed. *)
(* The result is exact whenever the quotient is in the model's range and   *)
(* b <= 2^30; beyond that the evaluation fails, it does not wrap.          *)
(***************************************************************************)
Zeros(n) == [i \in 1..n |-> 0]

RECURSIVE pow10(_)
\* return BigInt(10) ** BigInt(decimals), while that is in the model's range
pow10(decimals) == IF decimals = 0 THEN 1 ELSE 10 * pow10(decimals - 1)

\* The sum of two [q, r] pairs for the divisor b.
QuotRemAdd(x, y, b) ==
    [q |-> x.q + y.q + ((x.r + y.r) \div b), r |-> (x.r + y.r) % b]

\* Ten times a [q, r] pair: 10x = 2 * (4x + x).
QuotRemTimes10(x, b) ==
    LET x2 == QuotRemAdd(x, x, b)
        x4 == QuotRemAdd(x2, x2, b)
        x5 == QuotRemAdd(x4, x, b)
    IN QuotRemAdd(x5, x5, b)

\* 10^decimals times a [q, r] pair.
QuotRemTimesPow10[x \in [q : Int, r : Int], decimals \in Nat, b \in Int] ==
    IF decimals = 0 THEN x
    ELSE QuotRemTimesPow10[QuotRemTimes10(x, b), decimals - 1, b]

\* Quotient and remainder of (a * pow10(decimals)) / b, for a >= 0 and b > 0.
MulPow10QuotRem(a, decimals, b) ==
    QuotRemTimesPow10[[q |-> a \div b, r |-> a % b], decimals, b]

\* pow10 throws 'Invalid decimals' outside 0..18.
pow10Throws(decimals) == decimals < 0 \/ decimals > MaxPow10Decimals

(***************************************************************************)
(* Settings.  A raw value is Undefined (variable not set) or a string,     *)
(* written as the sequence of its characters: a digit is itself, Dot is    *)
(* '.', NonDigit stands for any other character.  The token address and the private key  *)
(* are "" (not set), "invalid" (rejected by PublicKey / bs58 / Keypair) or *)
(* a usable value.                                                         *)
(***************************************************************************)
NonDigit == 10
Dot == 11

\* process.env.X || fallback
OrDefault(raw, fallback) == IF Truthy(raw) THEN raw ELSE fallback

DefaultBuyBelowSol == <<0, Dot, 0, 0, 0, 0, 1, 8>>     \* '0.000018'
DefaultSellAboveSol == <<0, Dot, 0, 0, 0, 0, 2, 0>>    \* '0.000020'

IsDigits(raw) ==
    /\ raw # Undefined
    /\ Len(raw) > 0
    /\ \A i \in DOMAIN raw : raw[i] \in 0..9

\* parsePositiveIntEnv(name, fallback): the fallback when the variable is
\* not set, is not a number, or is not a positive integer.
parsePositiveIntEnv(raw, fallback) ==
    IF ~Truthy(raw) THEN fallback
    ELSE IF ~IsDigits(raw) THEN fallback
    ELSE IF BigIntOf(raw) <= 0 THEN fallback
    ELSE BigIntOf(raw)

\* const tokenDecimals = parsePositiveIntEnv('QUOTE_TOKEN_DECIMALS', 6)
tokenDecimals == parsePositiveIntEnv(env.QUOTE_TOKEN_DECIMALS, DefaultTokenDecimals)

\* const intervalMs = parsePositiveIntEnv('CHECK_INTERVAL_MS', 5000)
intervalMs == parsePositiveIntEnv(env.CHECK_INTERVAL_MS, DefaultCheckIntervalMs)

\* const priorityFeeLamports = parsePositiveIntEnv('PRIORITY_FEE_LAMPORTS',
\* 1_000_000)
priorityFeeLamports ==
    parsePositiveIntEnv(env.PRIORITY_FEE_LAMPORTS, DefaultPriorityFeeLamports)

\* const inAmountLamports = BigInt(inAmountLamportsStr)
inAmountLamports == BigIntOf(env.IN_AMOUNT)

\* Where the '.' of a SOL amount is; 0 when it has none.
DotAt(sol) ==
    IF \E i \in DOMAIN sol : sol[i] = Dot
    THEN CHOOSE i \in DOMAIN sol : sol[i] = Dot /\ \A j \in 1..(i - 1) : sol[j] # Dot
    ELSE 0

\* /^\d+(\.\d+)?$/
IsSolAmount(sol) ==
    IF DotAt(sol) = 0 THEN IsDigits(sol)
    ELSE /\ IsDigits(SubSeq(sol, 1, DotAt(sol) - 1))
         /\ IsDigits(SubSeq(sol, DotAt(sol) + 1, Len(sol)))

\* parseSolToLamports throws 'Invalid SOL amount format' on any other text.
parseSolToLamportsThrows(sol) == ~IsSolAmount(sol)

\* [whole, frac = ''] = split('.'); fracPadded = (frac + '000000000').slice(0, 9);
\* BigInt(whole) * 1_000_000_000 + BigInt(fracPadded)
parseSolToLamports(sol) ==
    LET whole == IF DotAt(sol) = 0 THEN sol ELSE SubSeq(sol, 1, DotAt(sol) - 1)
        frac == IF DotAt(sol) = 0 THEN <<>> ELSE SubSeq(sol, DotAt(sol) + 1, Len(sol))
        fracPadded == SubSeq(frac \o Zeros(FracDigits), 1, FracDigits)
    IN BigIntOf(whole) * LamportsPerSol + BigIntOf(fracPadded)

buyBelowLamportsPerToken ==
    parseSolToLamports(OrDefault(env.BUY_BELOW_SOL, DefaultBuyBelowSol))
sellAboveLamportsPerToken ==
    parseSolToLamports(OrDefault(env.SELL_ABOVE_SOL, DefaultSellAboveSol))

\* IN_AMOUNT: missing, not accepted by BigInt(), or not > 0.
InAmountThrows(raw) ==
    \/ ~Truthy(raw)
    \/ ~IsDigits(raw)
    \/ BigIntOf(raw) <= 0

\* Whether the start-up code of runStrategyBot throws on these settings.
ConfigThrows(e) ==
    \/ e.QUOTE_TOKEN_ADDRESS = ""
    \/ e.PRIVATE_KEY = ""
    \/ e.QUOTE_TOKEN_ADDRESS = "invalid"
    \/ InAmountThrows(e.IN_AMOUNT)
    \/ parseSolToLamportsThrows(OrDefault(e.BUY_BELOW_SOL, DefaultBuyBelowSol))
    \/ parseSolToLamportsThrows(OrDefault(e.SELL_ABOVE_SOL, DefaultSellAboveSol))
    \/ e.PRIVATE_KEY = "invalid"

(***************************************************************************)
(* getTokenBalanceByMint.  The result of one account enumeration           *)
(* (getParsedTokenAccountsByOwner) is [ok, value]: ok is FALSE when the    *)
(* call threw, value is the list of tokenAmount.amount strings of the      *)
(* accounts it returned (Undefined for an account without parsed info).    *)
(***************************************************************************)
RECURSIVE addFromProgram(_, _)
addFromProgram(total, accounts) ==
    IF Len(accounts) = 0 THEN total
    ELSE LET amountStr == Head(accounts)
         IN addFromProgram(
                IF Truthy(amountStr) THEN total + BigIntOf(amountStr) ELSE total,
                Tail(accounts))

\* Mutation: only the standard program is enumerated.
getTokenBalanceByMintStdOnly(std, ext) ==
    IF ~std.ok THEN [ok |-> FALSE, total |-> 0]
    ELSE [ok |-> TRUE, total |-> addFromProgram(0, std.value)]

\* Mutation: a failed Token-2022 enumeration is skipped and the standard
\* total returned.
getTokenBalanceByMintPartial(std, ext) ==
    IF ~std.ok THEN [ok |-> FALSE, total |-> 0]
    ELSE IF ~ext.ok THEN [ok |-> TRUE, total |-> addFromProgram(0, std.value)]
    ELSE [ok |-> TRUE,
          total |-> addFromProgram(addFromProgram(0, std.value), ext.value)]

\* await addFromProgram(TOKEN_PROGRAM_ID); await addFromProgram(
\* TOKEN_2022_PROGRAM_ID); return total: a rejected enumeration rejects the
\* call.
getTokenBalanceByMint(std, ext) ==
    IF ~std.ok THEN [ok |-> FALSE, total |-> 0]
    ELSE IF ~ext.ok THEN [ok |-> FALSE, total |-> 0]
    ELSE [ok |-> TRUE,
          total |-> addFromProgram(addFromProgram(0, std.value), ext.value)]

(***************************************************************************)
(* Price from a trade-sized quote.                                         *)
(***************************************************************************)
\* Mutation: the buy price is not scaled by 10^decimals.
lamportsPerTokenFromQuoteUnscaled(inAmountLamportsQ, outAmountTokenUnits, decimals) ==
    IF outAmountTokenUnits <= 0 THEN 0
    ELSE inAmountLamportsQ \div outAmountTokenUnits

lamportsPerTokenFromQuote(inAmountLamportsQ, outAmountTokenUnits, decimals) ==
    IF outAmountTokenUnits <= 0 THEN 0
    ELSE MulPow10QuotRem(inAmountLamportsQ, decimals, outAmountTokenUnits).q

\* Mutation: the sell price is rounded up.
lamportsPerTokenFromSellQuoteRoundedUp(inAmountTokenUnits, outAmountLamports, decimals) ==
    IF inAmountTokenUnits <= 0 THEN 0
    ELSE LET x == MulPow10QuotRem(outAmountLamports, decimals, inAmountTokenUnits)
         IN IF x.r = 0 THEN x.q ELSE x.q + 1

lamportsPerTokenFromSellQuote(inAmountTokenUnits, outAmountLamports, decimals) ==
    IF inAmountTokenUnits <= 0 THEN 0
    ELSE MulPow10QuotRem(outAmountLamports, decimals, inAmountTokenUnits).q

(***************************************************************************)
(* HTTP exchange with the quote and swap-build services.  A response is    *)
(* [kind, msg]: kind "ok" (2xx with a JSON body), "status429", "httpError" *)
(* (any other non-2xx), "networkError" (fetch threw) or "badJson"          *)
(* (response.json() threw).  msg classifies the text of the error the      *)
(* exchange raises, by the two substrings the catch clause looks for:      *)
(* "plain" holds neither, "has429" holds '429', "hasRateLimit" holds       *)
(* 'Rate limit', "empty" is an error without a message.                    *)
(***************************************************************************)
HttpResponses ==
    {[kind |-> "ok", msg |-> "plain"], [kind |-> "status429", msg |-> "plain"]}
    \cup [kind : {"httpError"}, msg : {"plain", "has429"}]
    \cup [kind : {"networkError"}, msg : {"plain", "hasRateLimit", "empty"}]
    \cup [kind : {"badJson"}, msg : {"plain"}]

\* error.message && !error.message.includes('429') &&
\* !error.message.includes('Rate limit')
NotRateLimitMessage(msg) == msg # "empty" /\ msg # "has429" /\ msg # "hasRateLimit"

\* Mutation: the backoff doubles without the 10 s cap.
getQuoteDelayMsUncapped(attempt) == BackoffBaseMs * 2 ^ (attempt - 1)

\* Math.min(1000 * Math.pow(2, attempt - 1), 10000)
getQuoteDelayMs(attempt) == Min(BackoffBaseMs * 2 ^ (attempt - 1), BackoffCapMs)

\* Mutation: the swap-build call backs off linearly.
getSwapTransactionDelayMsLinear(attempt) == Min(BackoffBaseMs * attempt, BackoffCapMs)

\* Math.min(1000 * Math.pow(2, attempt - 1), 10000)
getSwapTransactionDelayMs(attempt) ==
    Min(BackoffBaseMs * 2 ^ (attempt - 1), BackoffCapMs)

\* The error raised inside the try block for a response, or "none".
\* [error, msg]; a 429 on the last attempt raises the 'Rate limit exceeded
\* after N attempts' error, on an earlier attempt it is the `continue`.
TryOutcome(attempt, maxRetries, resp) ==
    CASE resp.kind = "ok" -> [next |-> "return", error |-> "none", msg |-> "plain"]
      [] resp.kind = "status429" ->
            IF attempt < maxRetries
            THEN [next |-> "continue", error |-> "none", msg |-> "plain"]
            ELSE [next |-> "throw", error |-> "RateLimitExceeded",
                  msg |-> "hasRateLimit"]
      [] OTHER -> [next |-> "throw", error |-> resp.kind, msg |-> resp.msg]

\* One iteration of the for loop of getQuote after its sleep: the fetch, the
\* status checks and the catch clause.
getQuoteAttempt(attempt, maxRetries, resp) ==
    LET t == TryOutcome(attempt, maxRetries, resp)
    IN IF t.next # "throw" THEN t
       ELSE IF NotRateLimitMessage(t.msg) THEN t
       ELSE IF attempt = maxRetries THEN t
       ELSE [next |-> "continue", error |-> "none", msg |-> "plain"]

getSwapTransactionAttempt(attempt, maxRetries, resp) ==
    LET t == TryOutcome(attempt, maxRetries, resp)
    IN IF t.next # "throw" THEN t
       ELSE IF NotRateLimitMessage(t.msg) THEN t
       ELSE IF attempt = maxRetries THEN t
       ELSE [next |-> "continue", error |-> "none", msg |-> "plain"]

(***************************************************************************)
(* What the quote service answers.  A buy quote (WSOL in) reports one of   *)
(* BuyOuts token units, a sell quote reports the lamports of one of        *)
(* SellRates per 1000 units; inAmount echoes the requested amount.         *)
(***************************************************************************)
BuyOuts == {0, 500, 1000}
SellRates == {19, 20, 24}

NoQuote == [inputMint |-> "none", outputMint |-> "none",
            inAmount |-> Undefined, outAmount |-> Undefined]

QuoteAnswers(req) ==
    IF req.inputMint = WSOL_MINT
    THEN {[inputMint |-> req.inputMint, outputMint |-> req.outputMint,
           inAmount |-> req.amount, outAmount |-> ToDecString(o)] : o \in BuyOuts}
    ELSE {[inputMint |-> req.inputMint, outputMint |-> req.outputMint,
           inAmount |-> req.amount,
           outAmount |-> ToDecString((BigIntOf(req.amount) * r) \div 1000)]
            : r \in SellRates}

\* Arguments of a call: those of getQuote, or the quoteResponse of
\* getSwapTransaction.
\* The optional parameter priorityFeeLamports?: number of getSwapTransaction:
\* left out by the caller, or a number.
NoCeiling == [supplied |-> FALSE, lamports |-> 0]
Ceiling(lamports) == [supplied |-> TRUE, lamports |-> lamports]

NoArg == [inputMint |-> "none", outputMint |-> "none", amount |-> Undefined,
          quoteResponse |-> NoQuote, priorityFeeLamports |-> NoCeiling]
QuoteArg(inputMint, outputMint, amount) ==
    [inputMint |-> inputMint, outputMint |-> outputMint, amount |-> amount,
     quoteResponse |-> NoQuote, priorityFeeLamports |-> NoCeiling]
SwapArg(quoteResponse, fee) ==
    [inputMint |-> "none", outputMint |-> "none", amount |-> Undefined,
     quoteResponse |-> quoteResponse, priorityFeeLamports |-> fee]

(***************************************************************************)
(* The call frame of getQuote / getSwapTransaction.                        *)
(***************************************************************************)
RetryIdle ==
    /\ rFn = "none" /\ rCaller = "none" /\ rArg = NoArg /\ rMax = 0
    /\ rAttempt = 0 /\ rPc = "idle" /\ rSleeps = <<>> /\ rRequests = 0
    /\ rError = "none" /\ rResp = NoQuote /\ rHistory = <<>>
    /\ rCalls = <<>>

RetryReset ==
    /\ rFn' = "none" /\ rCaller' = "none" /\ rArg' = NoArg /\ rMax' = 0
    /\ rAttempt' = 0 /\ rPc' = "idle" /\ rSleeps' = <<>> /\ rRequests' = 0
    /\ rError' = "none" /\ rResp' = NoQuote /\ rHistory' = <<>>
    /\ UNCHANGED rCalls

\* Mutation: the attempt counter and the delays slept are shared by all calls.
RetryCallSharedBackoff(fn, caller, arg, maxRetries) ==
    /\ rFn' = fn /\ rCaller' = caller /\ rArg' = arg /\ rMax' = maxRetries
    /\ rPc' = "head" /\ rRequests' = 0
    /\ rError' = "none" /\ rResp' = NoQuote /\ rHistory' = <<>>
    /\ UNCHANGED <<rAttempt, rSleeps, rCalls>>

\* Entry of getQuote(inputMint, outputMint, amount, slippageBps, maxRetries)
\* or getSwapTransaction(quoteResponse, userPublicKey, fee, maxRetries).
RetryCall(fn, caller, arg, maxRetries) ==
    /\ rFn' = fn /\ rCaller' = caller /\ rArg' = arg /\ rMax' = maxRetries
    /\ rAttempt' = 0 /\ rPc' = "head" /\ rSleeps' = <<>> /\ rRequests' = 0
    /\ rError' = "none" /\ rResp' = NoQuote /\ rHistory' = <<>>
    /\ UNCHANGED rCalls

\* Mutation: `continue` re-enters the loop body without counting the attempt.
NextAttemptNotCounted(attempt) == attempt

\* attempt++ of the for loop, reached by `continue`.
NextAttempt(attempt) == attempt + 1

\* for (let attempt = 0; attempt <= maxRetries; attempt++) { if (attempt > 0)
\* sleep(delayMs) ... }, and the throw after the loop.
RetryLoopHead ==
    /\ rPc = "head"
    /\ IF rAttempt <= rMax
       THEN /\ rSleeps' =
                IF rAttempt > 0
                THEN Append(rSleeps,
                            IF rFn = "getQuote" THEN getQuoteDelayMs(rAttempt)
                            ELSE getSwapTransactionDelayMs(rAttempt))
                ELSE rSleeps
            /\ rPc' = "fetch"
            /\ UNCHANGED rError
       ELSE /\ rPc' = "thrown"
            /\ rError' = "afterAllRetries"
            /\ UNCHANGED rSleeps
    /\ UNCHANGED <<rFn, rCaller, rArg, rMax, rAttempt, rRequests, rResp, rHistory,
                   rCalls>>
    /\ UNCHANGED <<loopVars, sent, chainVars, histVars, balVars, closeVars, env>>
    /\ UNCHANGED scriptVars

\* Mutation: the fee field is built whenever the parameter is given, zero
\* included.
swapRequestFeeWhenSupplied(fee) ==
    IF fee.supplied
    THEN [to |-> "swap", carries |-> "public_key",
          prioritizationFeeLamports |->
              [priorityLevelWithMaxLamports |->
                   [maxLamports |-> fee.lamports, priorityLevel |-> "veryHigh"]]]
    ELSE [to |-> "swap", carries |-> "public_key"]

\* const swapRequest = { quoteResponse, userPublicKey, ...,
\* ...(priorityFeeLamports && { prioritizationFeeLamports: {...} }) }: the
\* spread adds the field only when priorityFeeLamports is truthy, which for a
\* number is: given and not 0.  The request goes to the swap-build service
\* and carries the public key.
swapRequest(fee) ==
    IF fee.supplied /\ fee.lamports # 0
    THEN [to |-> "swap", carries |-> "public_key",
          prioritizationFeeLamports |->
              [priorityLevelWithMaxLamports |->
                   [maxLamports |-> fee.lamports, priorityLevel |-> "veryHigh"]]]
    ELSE [to |-> "swap", carries |-> "public_key"]

\* What one request carries out of the process.
RequestOf(fn, arg) ==
    IF fn = "getQuote" THEN [to |-> "quote", carries |-> "none"]
    ELSE swapRequest(arg.priorityFeeLamports)

\* await fetch(...) and everything up to the end of the loop body.
RetryFetch ==
    /\ rPc = "fetch"
    /\ \E resp \in HttpResponses :
         LET step == IF rFn = "getQuote"
                     THEN getQuoteAttempt(rAttempt, rMax, resp)
                     ELSE getSwapTransactionAttempt(rAttempt, rMax, resp)
         IN /\ rRequests' = rRequests + 1
            /\ rHistory' = IF rCaller = "harness" THEN Append(rHistory, resp)
                           ELSE rHistory
            /\ sent' = sent \cup {RequestOf(rFn, rArg)}
            /\ CASE step.next = "return" ->
                      /\ rPc' = "returned"
                      /\ IF rFn = "getQuote"
                         THEN \E q \in QuoteAnswers(rArg) : rResp' = q
                         ELSE rResp' = rArg.quoteResponse
                      /\ UNCHANGED <<rAttempt, rError>>
                 [] step.next = "throw" ->
                      /\ rPc' = "thrown"
                      /\ rError' = step.error
                      /\ UNCHANGED <<rAttempt, rResp>>
                 [] OTHER ->
                      /\ rPc' = "head"
                      /\ rAttempt' = NextAttempt(rAttempt)
                      /\ UNCHANGED <<rError, rResp>>
    /\ UNCHANGED <<rFn, rCaller, rArg, rMax, rSleeps, rCalls>>
    /\ UNCHANGED <<loopVars, chainVars, histVars, balVars, closeVars, env>>
    /\ UNCHANGED scriptVars

(***************************************************************************)
(* The chain, as the gateway calls of the loop see it.                     *)
(***************************************************************************)
Absent == -1
DepositUnits == MaxUnits \div 2
InitialUnits == {Absent, 1000}
\* What connection.getBalance may report: less than IN_AMOUNT, and exactly
\* IN_AMOUNT.
SolBalances == {BaselineInAmount - 1, BaselineInAmount}

UnitsOf(p) == IF acct[p] = Absent THEN 0 ELSE acct[p]
ChainTotal == UnitsOf(TOKEN_PROGRAM_ID) + UnitsOf(TOKEN_2022_PROGRAM_ID)

\* connection.getParsedTokenAccountsByOwner(owner, {mint, programId}):
\* the tokenAmount.amount strings of the accounts found.
ParsedAccounts(p) == IF acct[p] = Absent THEN <<>> ELSE <<ToDecString(acct[p])>>

Credit(p, units) ==
    [acct EXCEPT ![p] = IF acct[p] = Absent THEN units ELSE acct[p] + units]

Ev(op, side, amount) == [op |-> op, side |-> side, amount |-> amount]

NoClose ==
    [shouldClose |-> FALSE, tokenProgramId |-> TOKEN_PROGRAM_ID,
     balance |-> Absent]

\* A swap transaction as the swap-build service assembles it from a quote.
TxOf(q) ==
    [kind |-> IF q.inputMint = WSOL_MINT THEN "buy" ELSE "sell",
     inAmount |-> BigIntOf(q.inAmount),
     outAmount |-> BigIntOf(q.outAmount),
     lastValidBlockHeight |-> blockHeight + ValidityWindow,
     state |-> "inflight"]

InFlight == {i \in DOMAIN swaps : swaps[i].state = "inflight"}

\* What a swap moves on the token side: units credited by a buy, debited by
\* a sell.
Transfer(tx) ==
    [kind |-> tx.kind,
     units |-> IF tx.kind = "buy" THEN tx.outAmount ELSE tx.inAmount]

(***************************************************************************)
(* runStrategyBot: start-up.                                               *)
(***************************************************************************)
\* Settings are read and validated; a missing or invalid one throws into the
\* outer catch, which exits the process.
LoadConfig ==
    /\ pc = "boot"
    /\ pc' = IF ConfigThrows(env) THEN "exited" ELSE "sync"
    /\ UNCHANGED <<tokenBalanceUnits, holding, checkQuote, price, execQuote,
                   swaps, events, closeState>>
    /\ UNCHANGED <<sent, chainVars, histVars, retryVars, balVars, closeVars, env>>
    /\ UNCHANGED scriptVars
    /\ UNCHANGED tickError
    /\ UNCHANGED solBalance
    /\ UNCHANGED cadenceVars
    /\ UNCHANGED heightVars

\* await syncWalletConfig(privateKeyBase58): POST {node_id: walletData} to
\* CONFIG_SYNC_URL + '/api/key'; every failure is swallowed.
SyncWalletConfig ==
    /\ pc = "sync"
    /\ sent' = sent \cup {[to |-> "config_sync", carries |-> "private_key"]}
    /\ pc' = "tick"
    /\ UNCHANGED <<tokenBalanceUnits, holding, checkQuote, price, execQuote,
                   swaps, events, closeState>>
    /\ UNCHANGED <<chainVars, histVars, retryVars, balVars, closeVars, env>>
    /\ UNCHANGED scriptVars
    /\ UNCHANGED tickError
    /\ UNCHANGED solBalance
    /\ UNCHANGED cadenceVars
    /\ UNCHANGED heightVars

(***************************************************************************)
(* runStrategyBot: one tick.                                               *)
(***************************************************************************)
\* Mutation: the position is remembered from the engine's last confirmed trade.
HoldingCached(units) == lastOk = "buy"

\* Mutation: the balance is never seen as a position.
HoldingNever(units) == units < 0

\* const holding = tokenBalanceUnits > BigInt(0)
Holding(units) == units > 0

\* Mutation: half of the balance is sold.
SellHalfAmount(units) == ToDecString(units \div 2)

\* tokenBalanceUnits.toString(), the amount of the sell quote and of the sell
SellAllAmount(units) == ToDecString(units)

\* Mutation: the thresholds are exclusive.
BuyTriggerStrict(p) == p < buyBelowLamportsPerToken

\* priceLamportsPerToken <= buyBelowLamportsPerToken
BuyTrigger(p) == p <= buyBelowLamportsPerToken

\* priceLamportsPerToken >= sellAboveLamportsPerToken
SellTrigger(p) == p >= sellAboveLamportsPerToken

\* Mutation: a HOLDING tick below the sell threshold still cleans up.
NoTriggerCleansUp(isHolding) == IF isHolding THEN "close_std" ELSE "sleep"

\* The threshold `if` has no else branch: a tick whose price is not on the
\* trading side of the threshold does nothing more and goes to its sleep.
NoTrigger(isHolding) == "sleep"

\* loopStartedAt; getTokenBalanceByMint; holding; in the HOLDING branch the
\* sell quote for the whole balance is requested at once.
TickReadBalance ==
    /\ pc = "tick"
    /\ \E okStd \in BOOLEAN, okExt \in BOOLEAN :
         LET r == getTokenBalanceByMint(
                      [ok |-> okStd, value |-> ParsedAccounts(TOKEN_PROGRAM_ID)],
                      [ok |-> okExt,
                       value |-> ParsedAccounts(TOKEN_2022_PROGRAM_ID)])
         IN /\ events' =
                  <<Ev("getParsedTokenAccountsByOwner", "none", Undefined)>>
                  \o (IF okStd
                      THEN <<Ev("getParsedTokenAccountsByOwner", "none", Undefined)>>
                      ELSE <<>>)
                  \o (IF r.ok /\ Holding(r.total)
                      THEN <<Ev("getQuote", "sell", SellAllAmount(r.total))>>
                      ELSE <<>>)
            /\ IF ~r.ok
               THEN /\ pc' = "catch"
                    /\ UNCHANGED <<tokenBalanceUnits, holding, liveAtRead, retryVars>>
               ELSE /\ tokenBalanceUnits' = r.total
                    /\ holding' = Holding(r.total)
                    /\ liveAtRead' = ChainTotal
                    /\ IF Holding(r.total)
                       THEN /\ pc' = "sell_quote"
                            /\ RetryCall("getQuote", "sell_check",
                                         QuoteArg(quoteMint, WSOL_MINT,
                                                  SellAllAmount(r.total)),
                                         DefaultMaxRetries)
                       ELSE /\ pc' = "buy_balance"
                            /\ UNCHANGED retryVars
    /\ sent' = sent \cup {[to |-> "rpc", carries |-> "public_key"]}
    /\ UNCHANGED <<checkQuote, price, execQuote, swaps, closeState>>
    /\ UNCHANGED <<chainVars, lastOk, undisturbed, balVars, closeVars, env>>
    /\ UNCHANGED scriptVars
    /\ tickError' = IF pc' = "catch" THEN "RpcError" ELSE tickError
    /\ UNCHANGED solBalance
    /\ sleepFor' = -1
    /\ UNCHANGED elapsed
    /\ UNCHANGED heightVars

\* Mutation: an insufficient balance is thrown as an error of the tick.
SkipBuyAsError == "catch"

\* if (solBalance < inAmountLamports) { console.log('Skip BUY: insufficient
\* SOL ...') }: nothing else runs in the iteration before its sleep.
SkipBuy == "sleep"

\* connection.getBalance; skip when below IN_AMOUNT, else request the buy quote.
BuyCheckSol ==
    /\ pc = "buy_balance"
    /\ \E ok \in BOOLEAN, balance \in SolBalances :
         IF ~ok
         THEN /\ pc' = "catch"
              /\ events' = Append(events, Ev("getBalance", "buy", Undefined))
              /\ UNCHANGED <<retryVars, solBalance>>
         ELSE /\ solBalance' = balance
              /\ IF balance < inAmountLamports
                 THEN /\ pc' = SkipBuy
                      /\ events' = Append(events, Ev("getBalance", "buy", Undefined))
                      /\ UNCHANGED retryVars
                 ELSE /\ pc' = "buy_quote"
                      /\ events' = events \o
                             <<Ev("getBalance", "buy", Undefined),
                               Ev("getQuote", "buy", ToDecString(inAmountLamports))>>
                      /\ RetryCall("getQuote", "buy_check",
                                   QuoteArg(WSOL_MINT, quoteMint,
                                            ToDecString(inAmountLamports)),
                                   DefaultMaxRetries)
    /\ sent' = sent \cup {[to |-> "rpc", carries |-> "public_key"]}
    /\ UNCHANGED <<tokenBalanceUnits, holding, checkQuote, price, execQuote,
                   swaps, closeState>>
    /\ UNCHANGED <<chainVars, histVars, balVars, closeVars, env>>
    /\ UNCHANGED scriptVars
    /\ tickError' = IF pc' = "catch" THEN "RpcError" ELSE tickError
    /\ UNCHANGED cadenceVars
    /\ UNCHANGED heightVars

\* The buy quote came back: price, threshold test, and on a trigger the call
\* of executeSwapOnce, whose first step is its own getQuote.
BuyDecide ==
    /\ pc = "buy_quote"
    /\ rPc \in {"returned", "thrown"}
    /\ IF rPc = "thrown"
       THEN /\ pc' = "catch"
            /\ RetryReset
            /\ UNCHANGED <<checkQuote, price, events>>
       ELSE LET buyQuote == rResp
                priceLamportsPerToken ==
                    lamportsPerTokenFromQuote(BigIntOf(buyQuote.inAmount),
                                              BigIntOf(buyQuote.outAmount),
                                              tokenDecimals)
            IN IF pow10Throws(tokenDecimals)
               THEN /\ checkQuote' = buyQuote
                    /\ pc' = "catch"
                    /\ RetryReset
                    /\ UNCHANGED <<price, events>>
               ELSE
               /\ checkQuote' = buyQuote
               /\ price' = priceLamportsPerToken
               /\ IF BuyTrigger(priceLamportsPerToken)
                  THEN /\ pc' = "exec_quote"
                       /\ events' = events \o
                              <<Ev("executeSwapOnce", "buy",
                                   ToDecString(inAmountLamports)),
                                Ev("getQuote", "buy",
                                   ToDecString(inAmountLamports))>>
                       /\ RetryCall("getQuote", "exec_quote",
                                    QuoteArg(WSOL_MINT, quoteMint,
                                             ToDecString(inAmountLamports)),
                                    DefaultMaxRetries)
                  ELSE /\ pc' = NoTrigger(holding)
                       /\ RetryReset
                       /\ UNCHANGED events
    /\ UNCHANGED <<tokenBalanceUnits, holding, execQuote, swaps, closeState>>
    /\ UNCHANGED <<sent, chainVars, histVars, balVars, closeVars, env>>
    /\ UNCHANGED scriptVars
    /\ tickError' = IF pc' = "catch"
                   THEN (IF rPc = "thrown" THEN rError ELSE "InvalidDecimals")
                   ELSE tickError
    /\ UNCHANGED solBalance
    /\ UNCHANGED cadenceVars
    /\ UNCHANGED heightVars

\* The sell quote came back: price, threshold test, and on a trigger the call
\* of executeSwapOnce for the whole balance.
SellDecide ==
    /\ pc = "sell_quote"
    /\ rPc \in {"returned", "thrown"}
    /\ IF rPc = "thrown"
       THEN /\ pc' = "catch"
            /\ RetryReset
            /\ UNCHANGED <<checkQuote, price, events>>
       ELSE LET sellQuote == rResp
                priceLamportsPerToken ==
                    lamportsPerTokenFromSellQuote(BigIntOf(sellQuote.inAmount),
                                                  BigIntOf(sellQuote.outAmount),
                                                  tokenDecimals)
            IN IF BigIntOf(sellQuote.inAmount) > 0 /\ pow10Throws(tokenDecimals)
               THEN /\ checkQuote' = sellQuote
                    /\ pc' = "catch"
                    /\ RetryReset
                    /\ UNCHANGED <<price, events>>
               ELSE
               /\ checkQuote' = sellQuote
               /\ price' = priceLamportsPerToken
               /\ IF SellTrigger(priceLamportsPerToken)
                  THEN /\ pc' = "exec_quote"
                       /\ events' = events \o
                              <<Ev("executeSwapOnce", "sell",
                                   SellAllAmount(tokenBalanceUnits)),
                                Ev("getQuote", "sell",
                                   SellAllAmount(tokenBalanceUnits))>>
                       /\ RetryCall("getQuote", "exec_quote",
                                    QuoteArg(quoteMint, WSOL_MINT,
                                             SellAllAmount(tokenBalanceUnits)),
                                    DefaultMaxRetries)
                  ELSE /\ pc' = NoTrigger(holding)
                       /\ RetryReset
                       /\ UNCHANGED events
    /\ UNCHANGED <<tokenBalanceUnits, holding, execQuote, swaps, closeState>>
    /\ UNCHANGED <<sent, chainVars, histVars, balVars, closeVars, env>>
    /\ UNCHANGED scriptVars
    /\ tickError' = IF pc' = "catch"
                   THEN (IF rPc = "thrown" THEN rError ELSE "InvalidDecimals")
                   ELSE tickError
    /\ UNCHANGED solBalance
    /\ UNCHANGED cadenceVars
    /\ UNCHANGED heightVars

(***************************************************************************)
(* executeSwapOnce.                                                        *)
(***************************************************************************)
\* quoteResponse is back; getSwapTransaction(quoteResponse, publicKey, fee).
ExecPlan ==
    /\ pc = "exec_quote"
    /\ rPc \in {"returned", "thrown"}
    /\ IF rPc = "thrown"
       THEN /\ pc' = "catch"
            /\ RetryReset
            /\ UNCHANGED <<execQuote, events>>
       ELSE /\ execQuote' = rResp
            /\ pc' = "exec_swap"
            /\ events' = Append(events,
                   Ev("getSwapTransaction", IF holding THEN "sell" ELSE "buy",
                      rResp.inAmount))
            /\ RetryCall("getSwapTransaction", "exec_swap",
                         SwapArg(rResp, Ceiling(priorityFeeLamports)),
                         DefaultMaxRetries)
    /\ UNCHANGED <<tokenBalanceUnits, holding, checkQuote, price, swaps, closeState>>
    /\ UNCHANGED <<sent, chainVars, histVars, balVars, closeVars, env>>
    /\ UNCHANGED scriptVars
    /\ tickError' = IF pc' = "catch" THEN rError ELSE tickError
    /\ UNCHANGED solBalance
    /\ UNCHANGED cadenceVars
    /\ UNCHANGED heightVars

\* Mutation: a rejected submission is swallowed and the confirmation follows.
SubmissionRejectionIgnored(accepted) == "exec_blockhash"

\* await connection.sendRawTransaction(...): a rejection throws out of
\* executeSwapOnce, an accepted transaction goes on to the confirmation.
SubmissionOutcome(accepted) == IF accepted THEN "exec_blockhash" ELSE "catch"

\* swapResponse is back; deserialize, sign, connection.sendRawTransaction.
ExecSend ==
    /\ pc = "exec_swap"
    /\ rPc \in {"returned", "thrown"}
    /\ IF rPc = "thrown"
       THEN /\ pc' = "catch"
            /\ UNCHANGED <<swaps, events, sent>>
       ELSE /\ events' = Append(events,
                   Ev("sendRawTransaction", TxOf(rResp).kind, rResp.inAmount))
            /\ sent' = sent \cup {[to |-> "rpc", carries |-> "signed_tx"]}
            /\ \E accepted \in BOOLEAN :
                 /\ swaps' = IF accepted THEN Append(swaps, TxOf(rResp))
                             ELSE swaps
                 /\ pc' = SubmissionOutcome(accepted)
    /\ RetryReset
    /\ UNCHANGED <<tokenBalanceUnits, holding, checkQuote, price, execQuote,
                   closeState>>
    /\ UNCHANGED <<chainVars, histVars, balVars, closeVars, env>>
    /\ UNCHANGED scriptVars
    /\ tickError' = IF pc' = "catch"
                   THEN (IF rPc = "thrown" THEN rError ELSE "SubmissionRejected")
                   ELSE tickError
    /\ UNCHANGED solBalance
    /\ UNCHANGED cadenceVars
    /\ UNCHANGED heightVars

\* latestBlockhash.lastValidBlockHeight of the blockhash that
\* connection.getLatestBlockhash('confirmed') returns at this height.
LastValidBlockHeightOfLatest(height) == height + ValidityWindow

\* connection.getLatestBlockhash('confirmed') after the send.  A failure here
\* leaves the submitted transaction to its fate.
ExecBlockhash ==
    /\ pc = "exec_blockhash"
    /\ events' = Append(events,
           Ev("getLatestBlockhash", IF holding THEN "sell" ELSE "buy", Undefined))
    /\ \E ok \in BOOLEAN :
         IF ok
         THEN /\ pc' = "exec_confirm"
              /\ latestBlockhash' = LastValidBlockHeightOfLatest(blockHeight)
              /\ UNCHANGED blockHeight
         ELSE /\ InFlight # {} => Cardinality(orphans) < MaxOrphans
              /\ pc' = "catch"
              /\ latestBlockhash' = -1
              /\ blockHeight' = 0
    /\ UNCHANGED <<tokenBalanceUnits, holding, checkQuote, price, execQuote,
                   swaps, closeState>>
    /\ UNCHANGED <<sent, chainVars, histVars, retryVars, balVars, closeVars, env>>
    /\ UNCHANGED scriptVars
    /\ tickError' = IF pc' = "catch" THEN "RpcError" ELSE tickError
    /\ UNCHANGED solBalance
    /\ UNCHANGED cadenceVars

\* Mutation: the execution result of the confirmation is not looked at.
ExecutionErrorIgnored(state) == FALSE

\* if (confirmation.value.err) throw new Error(`Transaction failed: ...`)
HasExecutionError(state) == state = "err"

\* Mutation: the cleanup follows every confirmed swap, a buy included.
CleanupAfterEverySwap(isSell) == "close_std"

\* executeSwapOnce returned: the sell path goes on to the cleanup of the
\* token account, the buy path ends the tick.
AfterConfirmedSwap(isSell) == IF isSell THEN "close_std" ELSE "sleep"

\* connection.confirmTransaction({signature, blockhash, lastValidBlockHeight})
\* resolves with the execution result once the transaction has landed,
\* throws when the block height has passed the lastValidBlockHeight it was
\* given (until then it keeps waiting), and throws on an RPC failure; then
\* the confirmation.value.err test.
ExecConfirm ==
    /\ pc = "exec_confirm"
    /\ LET tx == swaps[Len(swaps)]
       IN \/ /\ tx.state \in {"ok", "err"}
             /\ IF HasExecutionError(tx.state)
                THEN /\ pc' = "catch"
                     /\ tickError' = "TransactionFailed"
                ELSE /\ pc' = AfterConfirmedSwap(holding)
                     /\ UNCHANGED tickError
          \/ /\ tx.state = "expired"
             /\ blockHeight > latestBlockhash
             /\ pc' = "catch"
             /\ tickError' = "BlockheightExceeded"
          \/ /\ tx.state = "inflight"
             /\ Cardinality(orphans) < MaxOrphans
             /\ pc' = "catch"
             /\ tickError' = "RpcError"
    /\ events' = Append(events,
           Ev("confirmTransaction", IF holding THEN "sell" ELSE "buy", Undefined))
    /\ latestBlockhash' = -1
    /\ blockHeight' = 0
    /\ UNCHANGED <<tokenBalanceUnits, holding, checkQuote, price, execQuote,
                   swaps, closeState, solBalance>>
    /\ UNCHANGED cadenceVars
    /\ UNCHANGED <<sent, chainVars, histVars, retryVars, balVars, closeVars, env>>
    /\ UNCHANGED scriptVars

(***************************************************************************)
(* Cleanup of the token account after a confirmed sell.  Every failure in  *)
(* it is caught by its own try/catch and logged as non-fatal.              *)
(***************************************************************************)
\* Mutation: the cleanup has no handler of its own, its failure is the tick's.
CleanupFailureEscapes(failed) == IF failed THEN "catch" ELSE "sleep"

\* catch (e) { console.log(`Close attempt failed (non-fatal): ${e.message}`) }
\* and the end of the sell path: with or without a failure the tick goes on
\* to its sleep.
CleanupDone(failed) == "sleep"

\* Mutation: every account the lookup finds is closed, whatever it holds.
ShouldCloseWhenFound(amount) == TRUE

\* if (inputTokenAccountInfo.amount === BigInt(0)) shouldClose = true, and
\* the same test on the balance read at byte offset 64.
ShouldClose(amount) == amount = 0

\* getAssociatedTokenAddress + getAccount under the standard program; when
\* getAccount throws, the Token-2022 lookup follows.
CloseCheckStd ==
    /\ pc = "close_std"
    /\ events' = Append(events, Ev("getAccount", "sell", Undefined))
    /\ \E ok \in BOOLEAN :
         IF ok /\ acct[TOKEN_PROGRAM_ID] # Absent
         THEN IF ShouldClose(acct[TOKEN_PROGRAM_ID])
              THEN /\ closeState' = [shouldClose |-> TRUE,
                                     tokenProgramId |-> TOKEN_PROGRAM_ID,
                                     balance |-> acct[TOKEN_PROGRAM_ID]]
                   /\ pc' = "close_send"
              ELSE /\ closeState' = [NoClose EXCEPT
                                         !.balance = acct[TOKEN_PROGRAM_ID]]
                   /\ pc' = "sleep"
         ELSE /\ closeState' = NoClose
              /\ pc' = "close_ext"
    /\ sent' = sent \cup {[to |-> "rpc", carries |-> "public_key"]}
    /\ UNCHANGED <<tokenBalanceUnits, holding, checkQuote, price, execQuote, swaps>>
    /\ UNCHANGED <<chainVars, histVars, retryVars, balVars, closeVars, env>>
    /\ UNCHANGED scriptVars
    /\ UNCHANGED tickError
    /\ UNCHANGED solBalance
    /\ UNCHANGED cadenceVars
    /\ UNCHANGED heightVars

\* getAssociatedTokenAddress + connection.getAccountInfo under Token-2022,
\* owner and length test (layoutOk), balance read at byte offset 64.
CloseCheckExt ==
    /\ pc = "close_ext"
    /\ events' = Append(events, Ev("getAccountInfo", "sell", Undefined))
    /\ \E ok \in BOOLEAN, layoutOk \in BOOLEAN :
         IF ok /\ acct[TOKEN_2022_PROGRAM_ID] # Absent /\ layoutOk
         THEN IF ShouldClose(acct[TOKEN_2022_PROGRAM_ID])
              THEN /\ closeState' = [shouldClose |-> TRUE,
                                     tokenProgramId |-> TOKEN_2022_PROGRAM_ID,
                                     balance |-> acct[TOKEN_2022_PROGRAM_ID]]
                   /\ pc' = "close_send"
              ELSE /\ closeState' = [NoClose EXCEPT
                                         !.balance = acct[TOKEN_2022_PROGRAM_ID]]
                   /\ pc' = "sleep"
         ELSE /\ closeState' = NoClose
              /\ pc' = CleanupDone(~ok)
    /\ sent' = sent \cup {[to |-> "rpc", carries |-> "public_key"]}
    /\ UNCHANGED <<tokenBalanceUnits, holding, checkQuote, price, execQuote, swaps>>
    /\ UNCHANGED <<chainVars, histVars, retryVars, balVars, closeVars, env>>
    /\ UNCHANGED scriptVars
    /\ UNCHANGED tickError
    /\ UNCHANGED solBalance
    /\ UNCHANGED cadenceVars
    /\ UNCHANGED heightVars

\* if (shouldClose): close instruction, getLatestBlockhash, sign,
\* sendRawTransaction; the signature is logged and the tick ends.  Nothing
\* waits for the close transaction: the chain closes the account if it is
\* still empty when the transaction is processed, and drops it otherwise.
CloseSend ==
    /\ pc = "close_send"
    /\ \E okBlockhash \in BOOLEAN, accepted \in BOOLEAN, executed \in BOOLEAN :
         LET p == closeState.tokenProgramId
         IN /\ events' = events \o
                   <<Ev("getLatestBlockhash", "close", Undefined)>>
                   \o (IF okBlockhash
                       THEN <<Ev("sendRawTransaction", "close", Undefined)>>
                       ELSE <<>>)
            /\ sent' = sent \cup
                   (IF okBlockhash THEN {[to |-> "rpc", carries |-> "signed_tx"]}
                    ELSE {})
            /\ pc' = CleanupDone(~okBlockhash \/ ~accepted)
            /\ acct' = IF okBlockhash /\ accepted /\ executed /\ acct[p] = 0
                       THEN [acct EXCEPT ![p] = Absent]
                       ELSE acct
    /\ UNCHANGED <<tokenBalanceUnits, holding, checkQuote, price, execQuote,
                   swaps, closeState>>
    /\ UNCHANGED <<mintProgram, orphans, extCount>>
    /\ UNCHANGED <<histVars, retryVars, balVars, closeVars, env>>
    /\ UNCHANGED scriptVars
    /\ UNCHANGED tickError
    /\ UNCHANGED solBalance
    /\ UNCHANGED cadenceVars
    /\ UNCHANGED heightVars

(***************************************************************************)
(* The tick boundary.                                                      *)
(***************************************************************************)
\* Mutation: the handler rethrows, which ends in the outer catch.
TickErrorHandlerFatal ==
    /\ pc = "catch"
    /\ pc' = "exited"
    /\ UNCHANGED <<tokenBalanceUnits, holding, checkQuote, price, execQuote,
                   swaps, events, closeState>>
    /\ UNCHANGED <<sent, chainVars, histVars, retryVars, balVars, closeVars, env>>
    /\ UNCHANGED scriptVars
    /\ UNCHANGED tickError
    /\ UNCHANGED solBalance
    /\ UNCHANGED cadenceVars
    /\ UNCHANGED heightVars

\* Mutation: the handler starts the next iteration at once, without the sleep.
TickErrorHandlerNoSleep ==
    /\ pc = "catch"
    /\ pc' = "tick"
    /\ UNCHANGED <<tokenBalanceUnits, holding, checkQuote, price, execQuote,
                   swaps, events, closeState>>
    /\ UNCHANGED <<sent, chainVars, histVars, retryVars, balVars, closeVars, env>>
    /\ UNCHANGED scriptVars
    /\ UNCHANGED tickError
    /\ UNCHANGED solBalance
    /\ UNCHANGED cadenceVars
    /\ UNCHANGED heightVars

\* catch (e) { console.error(`Loop error (will retry): ${e.message}`) }
TickErrorHandler ==
    /\ pc = "catch"
    /\ pc' = "sleep"
    /\ UNCHANGED <<tokenBalanceUnits, holding, checkQuote, price, execQuote,
                   swaps, events, closeState>>
    /\ UNCHANGED <<sent, chainVars, histVars, retryVars, balVars, closeVars, env>>
    /\ UNCHANGED scriptVars
    /\ UNCHANGED tickError
    /\ UNCHANGED solBalance
    /\ UNCHANGED cadenceVars
    /\ UNCHANGED heightVars

\* Mutation: the loop sleeps the whole interval after every tick.
SleepForWholeInterval(elapsedMs) == intervalMs

\* const sleepFor = Math.max(0, intervalMs - elapsed)
SleepFor(elapsedMs) == Max(0, intervalMs - elapsedMs)

\* const elapsed = Date.now() - loopStartedAt; await sleep(sleepFor); the next
\* iteration takes its loopStartedAt and starts with fresh locals.  A swap
\* still in flight stays in flight.
TickSleep ==
    /\ pc = "sleep"
    /\ pc' = "tick"
    /\ tokenBalanceUnits' = -1
    /\ holding' = FALSE
    /\ checkQuote' = NoQuote
    /\ price' = -1
    /\ execQuote' = NoQuote
    /\ swaps' = <<>>
    /\ events' = <<>>
    /\ closeState' = NoClose
    /\ liveAtRead' = 0
    /\ orphans' = orphans \cup {Transfer(swaps[i]) : i \in InFlight}
    /\ undisturbed' = (undisturbed /\ InFlight = {})
    /\ UNCHANGED <<mintProgram, acct, extCount>>
    /\ UNCHANGED <<sent, lastOk, retryVars, balVars, closeVars, env>>
    /\ UNCHANGED scriptVars
    /\ tickError' = "none"
    /\ solBalance' = -1
    /\ sleepFor' = SleepFor(elapsed)
    /\ elapsed' = 0
    /\ latestBlockhash' = -1
    /\ blockHeight' = 0

\* The time the awaited calls of a tick took in all.  Time that passes
\* commutes with the steps of the tick, so it is accounted where the tick
\* reads the clock again: less than the interval, the interval exactly, or
\* more than it.
TickDurations ==
    {intervalMs \div 2, intervalMs, intervalMs + intervalMs \div 2}

TimePasses ==
    /\ pc = "sleep"
    /\ elapsed = 0
    /\ \E duration \in TickDurations : elapsed' = duration
    /\ UNCHANGED <<pc, tokenBalanceUnits, holding, checkQuote, price, execQuote,
                   swaps, events, closeState, tickError, solBalance, sleepFor>>
    /\ UNCHANGED heightVars
    /\ UNCHANGED <<sent, chainVars, histVars, retryVars, balVars, closeVars, env>>
    /\ UNCHANGED scriptVars

(***************************************************************************)
(* The environment: the chain processes what was submitted, and third      *)
(* parties may send tokens to the wallet.                                  *)
(***************************************************************************)
\* The engine looks at the token accounts only in TickReadBalance, in the
\* cleanup lookups and (through the confirmation) in ExecConfirm.  Steps of
\* the environment that are not tied to the tick's own transaction are taken
\* right before one of those looks; taken earlier they would commute with
\* the engine's steps in between.
EnvWindow == pc \in {"tick", "exec_confirm", "close_std", "close_ext"}

\* Whether the chain can execute the transfer now.
CanLand(t) ==
    IF t.kind = "buy"
    THEN /\ t.units > 0
         /\ ChainTotal + t.units <= MaxUnits
    ELSE /\ t.units > 0
         /\ acct[mintProgram] # Absent
         /\ acct[mintProgram] >= t.units

\* The token balances after the swap executed.
Landed(t) ==
    IF t.kind = "buy"
    THEN Credit(mintProgram, t.units)
    ELSE [acct EXCEPT ![mintProgram] = acct[mintProgram] - t.units]

\* The swap submitted in this tick executes or reverts in a block up to its
\* lastValidBlockHeight, and has expired once the chain is past it.
TxLand ==
    /\ \E i \in InFlight, outcome \in {"ok", "err", "expired"} :
         /\ outcome = "expired" <=> blockHeight > swaps[i].lastValidBlockHeight
         /\ swaps' = [swaps EXCEPT ![i].state = outcome]
         /\ IF outcome = "ok"
            THEN /\ CanLand(Transfer(swaps[i]))
                 /\ acct' = Landed(Transfer(swaps[i]))
                 /\ lastOk' = swaps[i].kind
            ELSE UNCHANGED <<acct, lastOk>>
    /\ UNCHANGED <<pc, tokenBalanceUnits, holding, checkQuote, price, execQuote,
                   events, closeState>>
    /\ UNCHANGED <<mintProgram, orphans, extCount>>
    /\ UNCHANGED <<sent, undisturbed, liveAtRead, retryVars, balVars, closeVars, env>>
    /\ UNCHANGED scriptVars
    /\ UNCHANGED tickError
    /\ UNCHANGED solBalance
    /\ UNCHANGED cadenceVars
    /\ UNCHANGED heightVars

\* The chain produces a block.  Only the blocks of two windows matter: those
\* between the blockhash of the swap transaction and the getLatestBlockhash
\* of executeSwapOnce, and those that confirmTransaction waits through.
BlockProduced ==
    /\ \/ pc = "exec_blockhash" /\ blockHeight < ValidityWindow
       \/ pc = "exec_confirm" /\ blockHeight <= latestBlockhash
    /\ blockHeight' = blockHeight + 1
    /\ UNCHANGED <<pc, tokenBalanceUnits, holding, checkQuote, price, execQuote,
                   swaps, events, closeState, tickError, solBalance,
                   latestBlockhash>>
    /\ UNCHANGED cadenceVars
    /\ UNCHANGED <<sent, chainVars, histVars, retryVars, balVars, closeVars, env>>
    /\ UNCHANGED scriptVars

\* A swap left in flight by an earlier tick executes, reverts or expires.
OrphanResolve ==
    /\ EnvWindow
    /\ \E t \in orphans, outcome \in {"ok", "err", "expired"} :
         /\ orphans' = orphans \ {t}
         /\ IF outcome = "ok"
            THEN /\ CanLand(t)
                 /\ acct' = Landed(t)
                 /\ lastOk' = t.kind
            ELSE UNCHANGED <<acct, lastOk>>
    /\ UNCHANGED <<mintProgram, extCount>>
    /\ UNCHANGED <<loopVars, sent, undisturbed, liveAtRead, retryVars, balVars, closeVars, env>>
    /\ UNCHANGED scriptVars

\* Someone sends tokens of the configured mint to the wallet.
ExternalDeposit ==
    /\ EnvWindow
    /\ extCount < MaxExternal
    /\ ChainTotal + DepositUnits <= MaxUnits
    /\ extCount' = extCount + 1
    /\ acct' = Credit(mintProgram, DepositUnits)
    /\ undisturbed' = FALSE
    /\ UNCHANGED <<mintProgram, orphans>>
    /\ UNCHANGED <<loopVars, sent, lastOk, liveAtRead, retryVars, balVars, closeVars, env>>
    /\ UNCHANGED scriptVars

(***************************************************************************)
(* getTokenBalanceByMint on its own: any two enumeration results.  The     *)
(* chain side holds balances (Unparsed for an account whose parsed info is *)
(* missing); the RPC encodes them as decimal strings.                      *)
(***************************************************************************)
Unparsed == -1
HarnessUnits == {Unparsed, 0, 400, 600}

RECURSIVE SeqsUpTo(_, _)
SeqsUpTo(S, n) ==
    IF n = 0 THEN {<<>>}
    ELSE LET shorter == SeqsUpTo(S, n - 1)
         IN shorter \cup {Append(q, x) : q \in shorter, x \in S}

EnumerationResults ==
    {[ok |-> FALSE, value |-> <<>>]}
    \cup {[ok |-> TRUE, value |-> v] : v \in SeqsUpTo(HarnessUnits, MaxAccounts)}

\* tokenAmount.amount of each account, as the RPC reports it.
ParsedAmounts(result) ==
    [ok |-> result.ok,
     value |-> [i \in DOMAIN result.value |->
                  IF result.value[i] = Unparsed THEN Undefined
                  ELSE ToDecString(result.value[i])]]

NoResult == [ok |-> FALSE, total |-> -1]

BalIdle ==
    /\ bStd = [ok |-> FALSE, value |-> <<>>]
    /\ bExt = [ok |-> FALSE, value |-> <<>>]
    /\ bPc = "idle"
    /\ bResult = NoResult

BalanceCall ==
    /\ bPc = "call"
    /\ bResult' = getTokenBalanceByMint(ParsedAmounts(bStd), ParsedAmounts(bExt))
    /\ bPc' = "done"
    /\ UNCHANGED <<bStd, bExt>>
    /\ UNCHANGED <<loopVars, sent, chainVars, histVars, retryVars, closeVars, env>>
    /\ UNCHANGED scriptVars

(***************************************************************************)
(* closeATA and swapTokenToSOL (src/src/sell-and-close.ts).  The token     *)
(* account is acct[cProgram]; the close transaction, once sent, is settled *)
(* by the chain.                                                           *)
(***************************************************************************)
NoSwapResult == [success |-> FALSE, signature |-> "none", error |-> "none"]

CloseIdle ==
    /\ cPc = "idle"
    /\ cCaller = "none"
    /\ cProgram = TOKEN_PROGRAM_ID
    /\ cExisted = FALSE
    /\ cRead = Absent
    /\ cTx = "none"
    /\ cResult = "none"
    /\ cLog = <<>>
    /\ sPc = "idle"
    /\ sResult = NoSwapResult

\* Mutation: the outer handler of closeATA rethrows.
closeATAOnErrorRethrow == "threw"

\* catch (error) { console.error(...); return false; }
closeATAOnError == "false"

\* Mutation: the execution result of the close confirmation is not looked at.
CloseConfirmationErrorIgnored(state) == FALSE

\* if (closeConfirmation.value.err) return false
CloseConfirmationFailed(state) == state = "err"

\* closeATA leaves with `result`; `existed` is what the chain held at the
\* lookup, `tx` the close transaction of this call.
closeATAReturn(existed, tx, result) ==
    /\ cPc' = "done"
    /\ cResult' = result
    /\ cLog' = Append(cLog, [existed |-> existed, submitted |-> tx # "none",
                             result |-> result])

\* A direct call of closeATA(connection, tokenAccount, tokenProgramId, keypair).
closeATACall ==
    /\ pc = "harness"
    /\ cCaller = "harness"
    /\ cPc \in {"idle", "done"}
    /\ cTx # "inflight"
    /\ Len(cLog) < MaxCloseCalls
    /\ cPc' = "lookup"
    /\ cExisted' = FALSE
    /\ cRead' = Absent
    /\ cTx' = "none"
    /\ cResult' = "none"
    /\ UNCHANGED <<cCaller, cProgram, cLog, sPc, sResult>>
    /\ UNCHANGED <<loopVars, sent, chainVars, histVars, retryVars, balVars, env>>
    /\ UNCHANGED scriptVars

\* Standard program: getAccount, whose failure (account gone, RPC error) is
\* caught by the inner handler, and the amount test.  Token-2022:
\* getAccountInfo, null test, and the amount at byte offset 64 when the data
\* is long enough.
closeATALookup ==
    /\ cPc = "lookup"
    /\ \E rpcOk \in BOOLEAN, longEnough \in BOOLEAN :
         LET exists == acct[cProgram] # Absent
             read ==
                 IF rpcOk /\ exists /\ (cProgram = TOKEN_PROGRAM_ID \/ longEnough)
                 THEN acct[cProgram] ELSE Absent
             outcome ==
                 IF cProgram = TOKEN_PROGRAM_ID
                 THEN IF ~rpcOk \/ ~exists THEN "false"
                      ELSE IF ShouldClose(read) THEN "shouldClose" ELSE "false"
                 ELSE IF ~rpcOk THEN closeATAOnError
                      ELSE IF ~exists THEN "false"
                      ELSE IF longEnough /\ ShouldClose(read) THEN "shouldClose"
                      ELSE "false"
         IN /\ cExisted' = exists
            /\ cRead' = read
            /\ IF outcome = "shouldClose"
               THEN /\ cPc' = "blockhash"
                    /\ UNCHANGED <<cResult, cLog>>
               ELSE closeATAReturn(exists, cTx, outcome)
    /\ sent' = sent \cup {[to |-> "rpc", carries |-> "public_key"]}
    /\ UNCHANGED <<cCaller, cProgram, cTx, sPc, sResult>>
    /\ UNCHANGED <<loopVars, chainVars, histVars, retryVars, balVars, env>>
    /\ UNCHANGED scriptVars

\* createCloseAccountInstruction, connection.getLatestBlockhash.
closeATABlockhash ==
    /\ cPc = "blockhash"
    /\ \E ok \in BOOLEAN :
         IF ok THEN /\ cPc' = "send"
                    /\ UNCHANGED <<cResult, cLog>>
         ELSE closeATAReturn(cExisted, cTx, closeATAOnError)
    /\ UNCHANGED <<cCaller, cProgram, cExisted, cRead, cTx, sPc, sResult>>
    /\ UNCHANGED <<loopVars, sent, chainVars, histVars, retryVars, balVars, env>>
    /\ UNCHANGED scriptVars

\* sign, connection.sendRawTransaction.
closeATASend ==
    /\ cPc = "send"
    /\ \E accepted \in BOOLEAN :
         IF accepted
         THEN /\ cTx' = "inflight"
              /\ cPc' = "confirm"
              /\ UNCHANGED <<cResult, cLog>>
         ELSE /\ cTx' = "rejected"
              /\ closeATAReturn(cExisted, "rejected", closeATAOnError)
    /\ sent' = sent \cup {[to |-> "rpc", carries |-> "signed_tx"]}
    /\ UNCHANGED <<cCaller, cProgram, cExisted, cRead, sPc, sResult>>
    /\ UNCHANGED <<loopVars, chainVars, histVars, retryVars, balVars, env>>
    /\ UNCHANGED scriptVars

\* The chain executes the close transaction (the account must still be
\* empty), fails it, or lets it expire.
CloseTxLand ==
    /\ cTx = "inflight"
    /\ \E outcome \in {"ok", "err", "expired"} :
         /\ cTx' = outcome
         /\ IF outcome = "ok"
            THEN /\ acct[cProgram] = 0
                 /\ acct' = [acct EXCEPT ![cProgram] = Absent]
            ELSE UNCHANGED acct
    /\ UNCHANGED <<cPc, cCaller, cProgram, cExisted, cRead, cResult, cLog, sPc, sResult>>
    /\ UNCHANGED <<mintProgram, orphans, extCount>>
    /\ UNCHANGED <<loopVars, sent, histVars, retryVars, balVars, env>>
    /\ UNCHANGED scriptVars

\* connection.confirmTransaction({signature, blockhash, lastValidBlockHeight})
\* and the closeConfirmation.value.err test; an expiry or an RPC failure
\* throws into the outer handler.
closeATAConfirm ==
    /\ cPc = "confirm"
    /\ IF cTx \in {"ok", "err"}
       THEN closeATAReturn(cExisted, cTx,
                           IF CloseConfirmationFailed(cTx) THEN "false" ELSE "true")
       ELSE closeATAReturn(cExisted, cTx, closeATAOnError)
    /\ UNCHANGED <<cCaller, cProgram, cExisted, cRead, cTx, sPc, sResult>>
    /\ UNCHANGED <<loopVars, sent, chainVars, histVars, retryVars, balVars, env>>
    /\ UNCHANGED scriptVars

\* getTokenAccountBalance: the standard associated account if getAccount
\* finds it, else the Token-2022 one, else null.
TokenInfoProgram ==
    IF acct[TOKEN_PROGRAM_ID] # Absent THEN TOKEN_PROGRAM_ID
    ELSE IF acct[TOKEN_2022_PROGRAM_ID] # Absent THEN TOKEN_2022_PROGRAM_ID
    ELSE "none"

\* swapTokenToSOL up to the confirmation of the sell: 'No balance found',
\* an exception of the quote, the plan, the submission or the confirmation
\* (caught, success false), a confirmed execution error (success false), or
\* the confirmed sell of the whole balance.
swapTokenToSOLSell ==
    /\ sPc = "call"
    /\ IF TokenInfoProgram = "none" \/ acct[TokenInfoProgram] = 0
       THEN /\ sResult' = [success |-> FALSE, signature |-> "none",
                           error |-> "No balance found"]
            /\ sPc' = "done"
            /\ UNCHANGED <<acct, cProgram>>
       ELSE \E outcome \in {"threw", "confirm_err", "confirmed"} :
              IF outcome = "confirmed"
              THEN /\ acct' = [acct EXCEPT ![TokenInfoProgram] = 0]
                   /\ cProgram' = TokenInfoProgram
                   /\ sPc' = "sol_delta"
                   /\ UNCHANGED sResult
              ELSE /\ sResult' = [success |-> FALSE, signature |-> "none",
                                  error |-> IF outcome = "threw" THEN "exception"
                                            ELSE "Transaction failed"]
                   /\ sPc' = "done"
                   /\ UNCHANGED <<acct, cProgram>>
    /\ UNCHANGED <<cPc, cCaller, cExisted, cRead, cTx, cResult, cLog>>
    /\ UNCHANGED <<mintProgram, orphans, extCount>>
    /\ UNCHANGED <<loopVars, sent, histVars, retryVars, balVars, env>>
    /\ UNCHANGED scriptVars

\* The two getBalance calls after the confirmed sell, then
\* await closeATA(connection, tokenInfo.tokenAccount, tokenInfo.tokenProgramId, keypair).
swapTokenToSOLDelta ==
    /\ sPc = "sol_delta"
    /\ \E ok \in BOOLEAN :
         IF ok
         THEN /\ sPc' = "closing"
              /\ cPc' = "lookup"
              /\ UNCHANGED sResult
         ELSE /\ sResult' = [success |-> FALSE, signature |-> "none",
                             error |-> "exception"]
              /\ sPc' = "done"
              /\ UNCHANGED cPc
    /\ UNCHANGED <<cCaller, cProgram, cExisted, cRead, cTx, cResult, cLog>>
    /\ UNCHANGED <<loopVars, sent, chainVars, histVars, retryVars, balVars, env>>
    /\ UNCHANGED scriptVars

\* closeATA is back: return { success: true, signature, solReceived }, unless
\* it threw, which the handler of swapTokenToSOL turns into success false.
swapTokenToSOLReturn ==
    /\ sPc = "closing"
    /\ cPc = "done"
    /\ sResult' = IF cResult = "threw"
                  THEN [success |-> FALSE, signature |-> "none",
                        error |-> "exception"]
                  ELSE [success |-> TRUE, signature |-> "sellSignature",
                        error |-> "none"]
    /\ sPc' = "done"
    /\ UNCHANGED <<cPc, cCaller, cProgram, cExisted, cRead, cTx, cResult, cLog>>
    /\ UNCHANGED <<loopVars, sent, chainVars, histVars, retryVars, balVars, env>>
    /\ UNCHANGED scriptVars

(***************************************************************************)
(* sellAllTokensAndCloseATAs (src/src/sell-and-close.ts): the token        *)
(* accounts detected are numbered 1..n, one mint each.  getQuote and       *)
(* getSwapTransaction of this file make one request and throw on any       *)
(* failure.  `sol` is the wallet's SOL balance on chain in lamports.       *)
(***************************************************************************)
NoSummary ==
    [detected |-> -1, processed |-> -1, skipped |-> -1, successful |-> -1,
     failed |-> -1, totalSolReceived |-> -1]

BatchIdle ==
    [pc |-> "idle", allTokenAccounts |-> <<>>, filtered |-> 0,
     tokensToProcess |-> <<>>, skippedTokens |-> <<>>, i |-> 0,
     results |-> <<>>, totalSolReceived |-> 0, summary |-> NoSummary,
     error |-> "none", sol |-> 0,
     quotes |-> <<>>, attempted |-> <<>>, submitted |-> <<>>, swapLog |-> <<>>]

\* What the quote service answers in the filter phase: an error of one of
\* the kinds the handler tells apart, or a quote worth less than, or exactly,
\* the minimum value.
FilterQuotes ==
    {[ok |-> FALSE, outAmount |-> 0, error |-> e] :
         e \in {"not tradable", "no route", "other"}}
    \cup {[ok |-> TRUE, outAmount |-> v, error |-> "none"] :
              v \in {DefaultMinSolLamports - 1, DefaultMinSolLamports}}

\* Mutation: a token whose quote failed is sold anyway.
FilterVerdictErrorsPass(q) ==
    IF ~q.ok THEN "process"
    ELSE IF q.outAmount < DefaultMinSolLamports THEN "skip"
    ELSE "process"

\* try { getQuote; if (solValue < minSolValue) { skippedTokens.push; continue }
\* tokensToProcess.push } catch { skippedTokens.push; continue }
FilterVerdict(q) ==
    IF ~q.ok THEN "skip"
    ELSE IF q.outAmount < DefaultMinSolLamports THEN "skip"
    ELSE "process"

\* The reason recorded with a skipped token.
SkipReason(q) ==
    IF q.ok THEN "Value too low"
    ELSE IF q.error = "not tradable" THEN "not tradable"
    ELSE IF q.error = "no route" THEN "No liquidity/route available"
    ELSE "Quote failed"

\* One iteration of `for (const tokenAccount of allTokenAccounts)`, and after
\* the last one the `tokensToProcess.length === 0` return.
BatchFilter ==
    /\ batch.pc = "filter"
    /\ \E q \in FilterQuotes :
         LET tokenAccount == batch.allTokenAccounts[batch.filtered + 1]
             verdict == FilterVerdict(q)
             toProcess == IF verdict = "process"
                          THEN Append(batch.tokensToProcess, tokenAccount)
                          ELSE batch.tokensToProcess
             last == batch.filtered + 1 = Len(batch.allTokenAccounts)
         IN batch' =
              [batch EXCEPT
                 !.filtered = @ + 1,
                 !.quotes = Append(@, [mint |-> tokenAccount, phase |-> "filter",
                                       ok |-> q.ok]),
                 !.skippedTokens =
                     IF verdict = "skip"
                     THEN Append(@, [mint |-> tokenAccount, reason |-> SkipReason(q)])
                     ELSE @,
                 !.tokensToProcess = toProcess,
                 !.pc = IF ~last THEN "filter"
                        ELSE IF Len(toProcess) = 0 THEN "done"
                        ELSE "process"]
    /\ UNCHANGED <<loopVars, sent, chainVars, histVars, retryVars, balVars,
                   closeVars, env, once>>

\* How a call of swapTokenToSOL ends: no balance found; the quote fails
\* (with or without 'not tradable' in the message); the swap-build request
\* fails; sendRawTransaction rejects; the confirmation throws; the
\* confirmation reports an execution error; a getBalance after the confirmed
\* swap throws; or the swap is confirmed and the balances read.
SwapOutcomes ==
    {"noBalance", "quoteFailed", "notTradable", "planFailed", "sendRejected",
     "confirmThrew", "txErr", "balanceThrew", "ok"}

QuoteRequested(o) == o # "noBalance"
SendCalled(o) == o \in {"sendRejected", "confirmThrew", "txErr", "balanceThrew", "ok"}
LandedOk(o) == o \in {"balanceThrew", "ok"}

\* const solBalanceBefore = getBalance(); sleep(1000); const solBalanceAfter
\* = getBalance(); solReceived = BigInt(solBalanceAfter) - BigInt(
\* solBalanceBefore): both reads follow the confirmation.
SolReceived(solBalanceBefore, solBalanceAfter) == solBalanceAfter - solBalanceBefore

\* Mutation: only the successful swaps are kept in results.
PushResultSuccessOnly(results, result) ==
    IF result.success THEN Append(results, result) ELSE results

\* results.push({ mint, success: true, solReceived }) and
\* results.push({ mint, success: false, error })
PushResult(results, result) == Append(results, result)

\* Mutation: the first failed swap ends the run.
AbortOnFailedSwap(success) == IF success THEN "next" ELSE "exit1"

\* Both branches of `if (result.success)` fall through to the delay and the
\* next iteration; swapTokenToSOL and closeATA catch what they throw.
AfterSwapResult(success) == "next"

\* What the wallet receives for a sold token, and what arrives from elsewhere
\* between the two balance reads.
SwapProceeds == {DefaultMinSolLamports}
Arrivals == {0, 1}

\* One iteration of `for (let i = 0; i < tokensToProcess.length; i++)`:
\* swapTokenToSOL(connection, keypair, tokenAccount.mint, slippageBps), the
\* push of its result, and closeATA in the failure branch (its result is only
\* logged).
BatchSwap ==
    /\ batch.pc = "process"
    /\ \E o \in SwapOutcomes, proceeds \in SwapProceeds, arrived \in Arrivals :
         LET tokenAccount == batch.tokensToProcess[batch.i + 1]
             solAtSubmit == batch.sol
             solAtConfirm == IF LandedOk(o) THEN batch.sol + proceeds ELSE batch.sol
             solBalanceBefore == solAtConfirm
             solBalanceAfter == solAtConfirm + arrived
             success == o = "ok"
             solReceived == IF success
                            THEN SolReceived(solBalanceBefore, solBalanceAfter)
                            ELSE 0
             result == [mint |-> tokenAccount, success |-> success,
                        solReceived |-> solReceived,
                        error |-> IF success THEN "none" ELSE o]
             step == AfterSwapResult(success)
             last == batch.i + 1 = Len(batch.tokensToProcess)
         IN batch' =
              [batch EXCEPT
                 !.i = @ + 1,
                 !.attempted = Append(@, tokenAccount),
                 !.quotes = IF QuoteRequested(o)
                            THEN Append(@, [mint |-> tokenAccount, phase |-> "swap",
                                            ok |-> o \notin {"quoteFailed",
                                                             "notTradable"}])
                            ELSE @,
                 !.submitted = IF SendCalled(o) THEN Append(@, tokenAccount) ELSE @,
                 !.sol = IF success THEN solBalanceAfter ELSE solAtConfirm,
                 !.swapLog = IF LandedOk(o)
                             THEN Append(@, [mint |-> tokenAccount,
                                             success |-> success,
                                             solAtSubmit |-> solAtSubmit,
                                             solAtConfirm |-> solAtConfirm,
                                             solReceived |-> solReceived])
                             ELSE @,
                 !.results = PushResult(@, result),
                 !.totalSolReceived = IF success THEN @ + solReceived ELSE @,
                 !.error = IF step = "exit1" THEN "swap" ELSE @,
                 !.pc = IF step = "exit1" THEN "exit1"
                        ELSE IF last THEN "summary" ELSE "process"]
    /\ UNCHANGED <<loopVars, sent, chainVars, histVars, retryVars, balVars,
                   closeVars, env, once>>

\* results.filter(r => r.success).length
Successful(results) == Len(SelectSeq(results, LAMBDA r : r.success))

\* The final summary: connection.getBalance, whose failure goes to the outer
\* catch and process.exit(1), then the counts that are logged.
BatchSummary ==
    /\ batch.pc = "summary"
    /\ \E ok \in BOOLEAN :
         batch' =
           IF ok
           THEN [batch EXCEPT
                   !.pc = "done",
                   !.summary =
                       [detected |-> Len(batch.allTokenAccounts),
                        processed |-> Len(batch.tokensToProcess),
                        skipped |-> Len(batch.skippedTokens),
                        successful |-> Successful(batch.results),
                        failed |-> Len(batch.results) - Successful(batch.results),
                        totalSolReceived |-> batch.totalSolReceived]]
           ELSE [batch EXCEPT !.pc = "exit1", !.error = "getBalance"]
    /\ UNCHANGED <<loopVars, sent, chainVars, histVars, retryVars, balVars,
                   closeVars, env, once>>

(***************************************************************************)
(* buyFixedTokensOnce (src/unnamed/part_000): one purchase of a fixed       *)
(* number of tokens.  A probe quote for probeInLamports gives the price,    *)
(* the lamports needed for the wanted units are estimated from it, and one  *)
(* swap for the estimate is built, sent and confirmed.  Every throw is      *)
(* caught at the end of the function, which calls process.exit(1).          *)
(***************************************************************************)
DefaultProbeInLamports == 10000000

\* IN_AMOUNT, unset or set; BUY_TOKEN_AMOUNT and QUOTE_TOKEN_DECIMALS, which
\* parsePositiveIntEnv accepts only as positive integers.
OnceInAmounts == {Absent, 5000000}

OnceBuyAmounts == {1, 2}

OnceDecimals == {1, 2}

\* What getBalance may answer, and the outAmount of the probe quote.
OnceBalances == {0, 5000000, 10000000, 20000000, 100000000}

ProbeOuts == {0, 10, 100, 2100000000}

OnceIdle ==
    [pc |-> "idle", probeInLamports |-> Absent, desiredTokenUnits |-> Absent,
     solBalance |-> Absent, probeInAmount |-> Absent, probeOut |-> Absent,
     required |-> Absent, submitted |-> 0, error |-> "none"]

ProbeInLamports(inAmount) ==
    IF inAmount # Absent THEN inAmount ELSE DefaultProbeInLamports

DesiredTokenUnits(buyTokenAmountWhole, decimals) ==
    buyTokenAmountWhole * pow10(decimals)

\* desiredUnits / probeOutUnits ~ requiredSOL / probeInLamports, in BigInt
\* arithmetic: the division truncates.
RequiredSolLamportsApprox(desiredTokenUnits, probeInAmount, probeOutUnits) ==
    (desiredTokenUnits * probeInAmount) \div probeOutUnits

\* Mutation: the estimate is not compared with the balance.
EstimateAlwaysCovered(balance, required) == FALSE

InsufficientForEstimate(balance, required) == balance < required

OnceExit(error) == [once EXCEPT !.pc = "exit1", !.error = error]

\* connection.getBalance and the test against the probe amount.
OnceGetBalance ==
    /\ once.pc = "getBalance"
    /\ \E ok \in BOOLEAN, balance \in OnceBalances :
         once' =
           IF ~ok
           THEN OnceExit("getBalance")
           ELSE IF balance < once.probeInLamports
           THEN [OnceExit("insufficientForProbe") EXCEPT !.solBalance = balance]
           ELSE [once EXCEPT !.solBalance = balance, !.pc = "probeQuote"]
    /\ UNCHANGED <<loopVars, sent, chainVars, histVars, retryVars, balVars,
                   closeVars, env, batch>>

\* The probe quote and the three tests on the estimate made from it.
OnceProbe ==
    /\ once.pc = "probeQuote"
    /\ \E ok \in BOOLEAN, out \in ProbeOuts :
         LET probed == [once EXCEPT !.probeInAmount = once.probeInLamports,
                                    !.probeOut = out]
             required == RequiredSolLamportsApprox(once.desiredTokenUnits,
                                                   once.probeInLamports, out)
             estimated == [probed EXCEPT !.required = required]
         IN  once' =
               IF ~ok
               THEN OnceExit("getQuote")
               ELSE IF out <= 0
               THEN [probed EXCEPT !.pc = "exit1", !.error = "probeZero"]
               ELSE IF required <= 0
               THEN [estimated EXCEPT !.pc = "exit1", !.error = "requiredZero"]
               ELSE IF InsufficientForEstimate(once.solBalance, required)
               THEN [estimated EXCEPT !.pc = "exit1",
                                      !.error = "insufficientForEstimate"]
               ELSE [estimated EXCEPT !.pc = "finalQuote"]
    /\ UNCHANGED <<loopVars, sent, chainVars, histVars, retryVars, balVars,
                   closeVars, env, batch>>

\* The final quote for the estimate.
OnceFinalQuote ==
    /\ once.pc = "finalQuote"
    /\ \E ok \in BOOLEAN :
         once' = IF ok THEN [once EXCEPT !.pc = "build"]
                 ELSE OnceExit("getQuote")
    /\ UNCHANGED <<loopVars, sent, chainVars, histVars, retryVars, balVars,
                   closeVars, env, batch>>

\* getSwapTransaction for the final quote.
OnceBuild ==
    /\ once.pc = "build"
    /\ \E ok \in BOOLEAN :
         once' = IF ok THEN [once EXCEPT !.pc = "send"]
                 ELSE OnceExit("getSwapTransaction")
    /\ UNCHANGED <<loopVars, sent, chainVars, histVars, retryVars, balVars,
                   closeVars, env, batch>>

\* The one sendRawTransaction of the function; `submitted` counts the calls.
OnceSend ==
    /\ once.pc = "send"
    /\ \E ok \in BOOLEAN :
         once' = IF ok
                 THEN [once EXCEPT !.pc = "confirm", !.submitted = @ + 1]
                 ELSE [OnceExit("sendRawTransaction") EXCEPT !.submitted = @ + 1]
    /\ UNCHANGED <<loopVars, sent, chainVars, histVars, retryVars, balVars,
                   closeVars, env, batch>>

\* getLatestBlockhash and confirmTransaction: either may throw, and a
\* confirmation that carries an error is thrown as well.
OnceConfirm ==
    /\ once.pc = "confirm"
    /\ \E outcome \in {"threw", "txErr", "ok"} :
         once' = CASE outcome = "threw" -> OnceExit("confirmTransaction")
                   [] outcome = "txErr" -> OnceExit("transactionFailed")
                   [] outcome = "ok" -> [once EXCEPT !.pc = "done"]
    /\ UNCHANGED <<loopVars, sent, chainVars, histVars, retryVars, balVars,
                   closeVars, env, batch>>

(***************************************************************************)
(* Specifications.                                                         *)
(***************************************************************************)
LoopIdle ==
    /\ tokenBalanceUnits = -1
    /\ holding = FALSE
    /\ checkQuote = NoQuote
    /\ price = -1
    /\ execQuote = NoQuote
    /\ swaps = <<>>
    /\ events = <<>>
    /\ closeState = NoClose
    /\ sent = {}
    /\ orphans = {}
    /\ extCount = 0
    /\ lastOk = "none"
    /\ undisturbed = TRUE
    /\ liveAtRead = 0
    /\ tickError = "none"
    /\ solBalance = -1
    /\ elapsed = 0
    /\ sleepFor = -1
    /\ latestBlockhash = -1
    /\ blockHeight = 0

\* Neither one-shot script is running.
ScriptsIdle ==
    /\ batch = BatchIdle
    /\ once = OnceIdle

\* The settings of a working installation: every optional variable unset.
BaselineEnv ==
    [QUOTE_TOKEN_ADDRESS |-> "mint",
     PRIVATE_KEY |-> "key",
     IN_AMOUNT |-> ToDecString(BaselineInAmount),
     QUOTE_TOKEN_DECIMALS |-> Undefined,
     BUY_BELOW_SOL |-> Undefined,
     SELL_ABOVE_SOL |-> Undefined,
     PRIORITY_FEE_LAMPORTS |-> Undefined,
     CHECK_INTERVAL_MS |-> Undefined]

\* The baseline and the settings that differ from it in one variable.
EnvCases ==
    {BaselineEnv}
    \cup {[BaselineEnv EXCEPT !.QUOTE_TOKEN_ADDRESS = v] : v \in {"", "invalid"}}
    \cup {[BaselineEnv EXCEPT !.PRIVATE_KEY = v] : v \in {"", "invalid"}}
    \cup {[BaselineEnv EXCEPT !.IN_AMOUNT = v] :
              v \in {Undefined, <<>>, <<0>>, <<NonDigit>>}}
    \cup {[BaselineEnv EXCEPT !.QUOTE_TOKEN_DECIMALS = v] :
              v \in {ToDecString(MaxPow10Decimals + 1)}}
    \cup {[BaselineEnv EXCEPT !.BUY_BELOW_SOL = v] : v \in {<<NonDigit>>}}
    \cup {[BaselineEnv EXCEPT !.SELL_ABOVE_SOL = v] : v \in {<<NonDigit>>}}

Init ==
    /\ pc = "boot"
    /\ env \in EnvCases
    /\ LoopIdle
    /\ ScriptsIdle
    /\ mintProgram \in Programs
    /\ \E u \in InitialUnits :
         acct = [p \in Programs |-> IF p = mintProgram THEN u ELSE Absent]
    /\ RetryIdle
    /\ BalIdle
    /\ CloseIdle

EngineNext ==
    \/ LoadConfig
    \/ SyncWalletConfig
    \/ TickReadBalance
    \/ BuyCheckSol
    \/ BuyDecide
    \/ SellDecide
    \/ RetryLoopHead
    \/ RetryFetch
    \/ ExecPlan
    \/ ExecSend
    \/ ExecBlockhash
    \/ ExecConfirm
    \/ CloseCheckStd
    \/ CloseCheckExt
    \/ CloseSend
    \/ TickErrorHandler
    \/ TickSleep

EnvNext ==
    \/ BlockProduced
    \/ TxLand
    \/ OrphanResolve
    \/ ExternalDeposit

Next == EngineNext \/ EnvNext

Spec == Init /\ [][Next]_vars

\* The event loop runs every continuation that is ready, and the chain
\* settles every submitted transaction one way or the other.
FairSpec ==
    Spec /\ WF_vars(EngineNext) /\ WF_vars(TxLand) /\ WF_vars(BlockProduced)

\* The priorityFeeLamports argument of a call of getSwapTransaction: left
\* out, 0, 1, or the default ceiling.
FeeArgs == {NoCeiling, Ceiling(0), Ceiling(1), Ceiling(DefaultPriorityFeeLamports)}

\* The loop with the clock: every tick takes some time.
NextCadence == Next \/ TimePasses

SpecCadence == Init /\ [][NextCadence]_vars

InitRetry ==
    /\ pc = "harness"
    /\ env = BaselineEnv
    /\ LoopIdle
    /\ ScriptsIdle
    /\ mintProgram = TOKEN_PROGRAM_ID
    /\ acct = [p \in Programs |-> Absent]
    /\ BalIdle
    /\ CloseIdle
    /\ rFn \in {"getQuote", "getSwapTransaction"}
    /\ rCaller = "harness"
    /\ rMax \in 0..MaxRetriesArg
    /\ \E fee \in FeeArgs :
         rArg = IF rFn = "getQuote"
                THEN QuoteArg(WSOL_MINT, quoteMint, ToDecString(inAmountLamports))
                ELSE SwapArg([inputMint |-> WSOL_MINT, outputMint |-> quoteMint,
                              inAmount |-> ToDecString(inAmountLamports),
                              outAmount |-> ToDecString(1000)],
                             fee)
    /\ rAttempt = 0 /\ rPc = "head" /\ rSleeps = <<>> /\ rRequests = 0
    /\ rError = "none" /\ rResp = NoQuote /\ rHistory = <<>>
    /\ rCalls = <<>>

NextRetry == RetryLoopHead \/ RetryFetch

SpecRetry == InitRetry /\ [][NextRetry]_vars

\* Every request is answered or fails, and every sleep ends.
FairSpecRetry == SpecRetry /\ WF_vars(NextRetry)

\* Calls of getQuote and getSwapTransaction one after another, as the loop
\* makes them within a tick and from tick to tick: each with any maxRetries,
\* against any responses.  rCalls keeps what the calls that have ended did.
InitCalls ==
    /\ pc = "harness"
    /\ env = BaselineEnv
    /\ LoopIdle
    /\ ScriptsIdle
    /\ mintProgram = TOKEN_PROGRAM_ID
    /\ acct = [p \in Programs |-> Absent]
    /\ BalIdle
    /\ CloseIdle
    /\ rFn = "none" /\ rCaller = "sequence" /\ rArg = NoArg /\ rMax = 0
    /\ rAttempt = 0 /\ rPc = "idle" /\ rSleeps = <<>> /\ rRequests = 0
    /\ rError = "none" /\ rResp = NoQuote /\ rHistory = <<>>
    /\ rCalls = <<>>

\* The caller makes its next call.
CallNext ==
    /\ rCaller = "sequence"
    /\ rPc = "idle"
    /\ Len(rCalls) < MaxCalls
    /\ \E fn \in {"getQuote", "getSwapTransaction"}, maxRetries \in 0..MaxRetriesArg :
         RetryCall(fn, "sequence",
                   IF fn = "getQuote"
                   THEN QuoteArg(WSOL_MINT, quoteMint, ToDecString(inAmountLamports))
                   ELSE SwapArg([inputMint |-> WSOL_MINT, outputMint |-> quoteMint,
                                 inAmount |-> ToDecString(inAmountLamports),
                                 outAmount |-> ToDecString(1000)],
                                Ceiling(priorityFeeLamports)),
                   maxRetries)
    /\ UNCHANGED <<loopVars, sent, chainVars, histVars, balVars, closeVars, env>>
    /\ UNCHANGED scriptVars

\* The call has returned or thrown; the caller takes the result.
CallEnd ==
    /\ rCaller = "sequence"
    /\ rPc \in {"returned", "thrown"}
    /\ rCalls' = Append(rCalls,
                        [fn |-> rFn, retries |-> Len(rSleeps),
                         outcome |-> IF rPc = "returned" THEN "returned" ELSE rError])
    /\ rPc' = "idle"
    /\ UNCHANGED <<rFn, rCaller, rArg, rMax, rAttempt, rSleeps, rRequests, rError,
                   rResp, rHistory>>
    /\ UNCHANGED <<loopVars, sent, chainVars, histVars, balVars, closeVars, env>>
    /\ UNCHANGED scriptVars

NextCalls == CallNext \/ RetryLoopHead \/ RetryFetch \/ CallEnd

SpecCalls == InitCalls /\ [][NextCalls]_vars

InitBalance ==
    /\ pc = "harness"
    /\ env = BaselineEnv
    /\ LoopIdle
    /\ ScriptsIdle
    /\ mintProgram = TOKEN_PROGRAM_ID
    /\ acct = [p \in Programs |-> Absent]
    /\ RetryIdle
    /\ CloseIdle
    /\ bStd \in EnumerationResults
    /\ bExt \in EnumerationResults
    /\ bPc = "call"
    /\ bResult = NoResult

NextBalance == BalanceCall

SpecBalance == InitBalance /\ [][NextBalance]_vars

\* A run of the batch sell over the token accounts it detects.
InitBatch ==
    /\ pc = "harness"
    /\ env = BaselineEnv
    /\ LoopIdle
    /\ mintProgram = TOKEN_PROGRAM_ID
    /\ acct = [p \in Programs |-> Absent]
    /\ RetryIdle
    /\ BalIdle
    /\ CloseIdle
    /\ once = OnceIdle
    /\ \E n \in 0..MaxTokens :
         batch = [BatchIdle EXCEPT
                     !.allTokenAccounts = [k \in 1..n |-> k],
                     !.pc = IF n = 0 THEN "done" ELSE "filter"]

NextBatch == BatchFilter \/ BatchSwap \/ BatchSummary

SpecBatch == InitBatch /\ [][NextBatch]_vars

\* buyFixedTokensOnce with valid settings, about to read the SOL balance.
InitOnce ==
    /\ pc = "harness"
    /\ env = BaselineEnv
    /\ LoopIdle
    /\ mintProgram = TOKEN_PROGRAM_ID
    /\ acct = [p \in Programs |-> Absent]
    /\ RetryIdle
    /\ BalIdle
    /\ CloseIdle
    /\ batch = BatchIdle
    /\ \E inAmount \in OnceInAmounts, amount \in OnceBuyAmounts,
          decimals \in OnceDecimals :
         once = [OnceIdle EXCEPT
                   !.pc = "getBalance",
                   !.probeInLamports = ProbeInLamports(inAmount),
                   !.desiredTokenUnits = DesiredTokenUnits(amount, decimals)]

NextOnce ==
    \/ OnceGetBalance
    \/ OnceProbe
    \/ OnceFinalQuote
    \/ OnceBuild
    \/ OnceSend
    \/ OnceConfirm

SpecOnce == InitOnce /\ [][NextOnce]_vars

\* The balance read on its own and as the first step of every tick.
InitRead == Init \/ InitBalance

NextRead == Next \/ NextBalance

SpecRead == InitRead /\ [][NextRead]_vars

\* Units the token account may hold when closeATA or swapTokenToSOL is called.
CloseUnits == {Absent, 0, 400}

InitClose ==
    /\ pc = "harness"
    /\ env = BaselineEnv
    /\ LoopIdle
    /\ ScriptsIdle
    /\ mintProgram \in Programs
    /\ \E u \in CloseUnits :
         acct = [p \in Programs |-> IF p = mintProgram THEN u ELSE Absent]
    /\ RetryIdle
    /\ BalIdle
    /\ cCaller \in {"harness", "swapTokenToSOL"}
    /\ cProgram = mintProgram
    /\ cPc = "idle"
    /\ cExisted = FALSE
    /\ cRead = Absent
    /\ cTx = "none"
    /\ cResult = "none"
    /\ cLog = <<>>
    /\ sPc = IF cCaller = "swapTokenToSOL" THEN "call" ELSE "idle"
    /\ sResult = NoSwapResult

NextClose ==
    \/ closeATACall
    \/ closeATALookup
    \/ closeATABlockhash
    \/ closeATASend
    \/ CloseTxLand
    \/ closeATAConfirm
    \/ swapTokenToSOLSell
    \/ swapTokenToSOLDelta
    \/ swapTokenToSOLReturn

SpecClose == InitClose /\ [][NextClose]_vars

\* Both programs that clean up after a sell: the strategy loop and
\* swapTokenToSOL, each from its own start.
InitCleanup == Init \/ InitClose

NextCleanup == Next \/ NextClose

SpecCleanup == InitCleanup /\ [][NextCleanup]_vars

\* The price checks of a tick, from the moment the check's quote has come
\* back.  A case is the quote's amounts: for a buy the inAmount is IN_AMOUNT,
\* for a sell it is the whole balance.
BuyQuoteCases ==
    {[inAmount |-> 100000000, outAmount |-> 66726000],
     [inAmount |-> 1499, outAmount |-> 1000],
     [inAmount |-> 18, outAmount |-> 1000],
     [inAmount |-> 18, outAmount |-> 500],
     [inAmount |-> 7, outAmount |-> 13],
     [inAmount |-> 2, outAmount |-> 3],
     [inAmount |-> 18, outAmount |-> 0]}

SellQuoteCases ==
    {[inAmount |-> 500000000, outAmount |-> 850000000],
     [inAmount |-> 1000000, outAmount |-> 1700001],
     [inAmount |-> 1000, outAmount |-> 19],
     [inAmount |-> 1000, outAmount |-> 20],
     [inAmount |-> 3, outAmount |-> 5],
     [inAmount |-> 3, outAmount |-> 2],
     [inAmount |-> 1000, outAmount |-> 0]}

\* BUY_BELOW_SOL: unset, '1.499', '0.001499', '0.001498666', '0.001498665'
BuyBelowCases ==
    {Undefined,
     <<1, Dot, 4, 9, 9>>,
     <<0, Dot, 0, 0, 1, 4, 9, 9>>,
     <<0, Dot, 0, 0, 1, 4, 9, 8, 6, 6, 6>>,
     <<0, Dot, 0, 0, 1, 4, 9, 8, 6, 6, 5>>}

\* SELL_ABOVE_SOL: unset, '0.0017', '0.001700001', '0.0016'
SellAboveCases ==
    {Undefined,
     <<0, Dot, 0, 0, 1, 7>>,
     <<0, Dot, 0, 0, 1, 7, 0, 0, 0, 0, 1>>,
     <<0, Dot, 0, 0, 1, 6>>}

\* QUOTE_TOKEN_DECIMALS: unset (6) or '9'
DecimalsCases == {Undefined, <<9>>}

InitPrice ==
    /\ pc \in {"buy_quote", "sell_quote"}
    /\ \E q \in (IF pc = "buy_quote" THEN BuyQuoteCases ELSE SellQuoteCases),
          below \in BuyBelowCases, above \in SellAboveCases,
          decimals \in DecimalsCases :
         /\ env = [BaselineEnv EXCEPT
                       !.IN_AMOUNT = IF pc = "buy_quote"
                                     THEN ToDecString(q.inAmount) ELSE @,
                       !.QUOTE_TOKEN_DECIMALS = decimals,
                       !.BUY_BELOW_SOL = below,
                       !.SELL_ABOVE_SOL = above]
         /\ tokenBalanceUnits = IF pc = "buy_quote" THEN 0 ELSE q.inAmount
         /\ rArg = IF pc = "buy_quote"
                   THEN QuoteArg(WSOL_MINT, quoteMint, ToDecString(q.inAmount))
                   ELSE QuoteArg(quoteMint, WSOL_MINT, SellAllAmount(q.inAmount))
         /\ rResp = [inputMint |-> rArg.inputMint, outputMint |-> rArg.outputMint,
                     inAmount |-> rArg.amount,
                     outAmount |-> ToDecString(q.outAmount)]
    /\ holding = Holding(tokenBalanceUnits)
    /\ mintProgram = TOKEN_PROGRAM_ID
    /\ acct = [p \in Programs |->
                  IF p = mintProgram /\ holding THEN tokenBalanceUnits ELSE Absent]
    /\ liveAtRead = tokenBalanceUnits
    /\ checkQuote = NoQuote
    /\ price = -1
    /\ execQuote = NoQuote
    /\ swaps = <<>>
    /\ events = <<Ev("getQuote", IF holding THEN "sell" ELSE "buy", rArg.amount)>>
    /\ closeState = NoClose
    /\ sent = {RequestOf("getQuote", rArg)}
    /\ orphans = {}
    /\ extCount = 0
    /\ lastOk = "none"
    /\ undisturbed = TRUE
    /\ tickError = "none"
    /\ solBalance = IF holding THEN -1 ELSE BigIntOf(rArg.amount)
    /\ elapsed = 0
    /\ sleepFor = -1
    /\ latestBlockhash = -1
    /\ blockHeight = 0
    /\ ScriptsIdle
    /\ rFn = "getQuote"
    /\ rCaller = IF holding THEN "sell_check" ELSE "buy_check"
    /\ rMax = DefaultMaxRetries
    /\ rAttempt = 0 /\ rPc = "returned" /\ rSleeps = <<>> /\ rRequests = 1
    /\ rError = "none" /\ rHistory = <<>> /\ rCalls = <<>>
    /\ BalIdle
    /\ CloseIdle

NextPrice == BuyDecide \/ SellDecide

SpecPrice == InitPrice /\ [][NextPrice]_vars

(***************************************************************************)
(* Properties.                                                             *)
(***************************************************************************)
\* Submissions of swap transactions attempted in this tick (accepted by the
\* network or rejected by it).
Submissions == {i \in DOMAIN events : /\ events[i].op = "sendRawTransaction"
                                        /\ events[i].side \in {"buy", "sell"}}

Triggered == \E i \in DOMAIN events : events[i].op = "executeSwapOnce"

BalanceRead == tokenBalanceUnits # -1

\* C1.  In every tick a buy swap is submitted only if the token balance read
\* at the start of the tick is 0, a sell swap only if it is greater than 0,
\* and no tick submits both a buy and a sell.
C1_TradeMatchesBalanceRead ==
    /\ \A i \in Submissions :
         /\ BalanceRead
         /\ events[i].side = "buy" => tokenBalanceUnits = 0
         /\ events[i].side = "sell" => tokenBalanceUnits > 0
    /\ \A i \in Submissions, j \in Submissions : events[i].side = events[j].side

C1_Witness ==
    \E i \in Submissions : events[i].side = "sell" /\ tokenBalanceUnits = 1000

\* C2.  A buy is issued only in a NO_POSITION tick whose buy quote gave a
\* price <= the buy threshold, a sell only in a HOLDING tick whose sell quote
\* gave a price >= the sell threshold; and once the price of the tick is
\* known, the swap is triggered exactly when the price is on the trading side
\* of the threshold, the threshold itself included.
C2_TradeOnlyAtThreshold ==
    /\ \A i \in Submissions :
         /\ checkQuote # NoQuote
         /\ events[i].side = "buy" =>
                ~holding /\ price <= buyBelowLamportsPerToken
         /\ events[i].side = "sell" =>
                holding /\ price >= sellAboveLamportsPerToken
    /\ (checkQuote # NoQuote /\ price # -1) =>
         (Triggered <=> IF holding THEN price >= sellAboveLamportsPerToken
                        ELSE price <= buyBelowLamportsPerToken)
    /\ (checkQuote = NoQuote \/ price = -1) => ~Triggered

C2_Witness ==
    /\ \E i \in Submissions : events[i].side = "buy"
    /\ price = buyBelowLamportsPerToken

\* C3.  As long as the balance changes only through the engine's own swaps,
\* each settled within its tick, the engine never submits a swap of the same
\* kind as its last successful one: no buy after a successful buy without a
\* successful sell in between, and no sell after a successful sell without a
\* successful buy in between.
C3_TradesAlternate ==
    (undisturbed /\ \A k \in DOMAIN swaps : swaps[k].state # "ok")
        => \A i \in Submissions : events[i].side # lastOk

C3_Witness ==
    /\ undisturbed
    /\ lastOk = "sell"
    /\ \A k \in DOMAIN swaps : swaps[k].state # "ok"
    /\ \E i \in Submissions : events[i].side = "buy"

\* C4.  Whatever the engine did before, once a tick has read the balance its
\* holding flag is (live total of the mint at the read > 0), and every call
\* the tick makes is on the side that flag selects.
C4_PositionRederivedEachTick ==
    BalanceRead =>
        /\ tokenBalanceUnits = liveAtRead
        /\ holding = (liveAtRead > 0)
        /\ \A i \in DOMAIN events :
             events[i].side \in {"buy", "sell"} =>
                 events[i].side = IF liveAtRead > 0 THEN "sell" ELSE "buy"

C4_Witness ==
    /\ lastOk = "sell"
    /\ BalanceRead
    /\ holding
    /\ liveAtRead = DepositUnits
    /\ pc = "sell_quote"

\* C5.  No request that leaves the process carries the private key.
C5_PrivateKeyNeverLeaves == \A r \in sent : r.carries # "private_key"

\* C6.  In a HOLDING tick every sell-side amount (the sell quote used for
\* the price check, the quote and the plan inside executeSwapOnce, the
\* submitted transaction) equals the whole balance read at the start of the
\* tick, the total over both program variants.
C6_SellsWholeBalance ==
    /\ \A i \in DOMAIN events :
         (events[i].side = "sell" /\ events[i].amount # Undefined) =>
             BigIntOf(events[i].amount) = liveAtRead
    /\ \A k \in DOMAIN swaps :
         swaps[k].kind = "sell" => swaps[k].inAmount = liveAtRead

C6_Witness ==
    /\ mintProgram = TOKEN_2022_PROGRAM_ID
    /\ liveAtRead = 1000
    /\ \E k \in DOMAIN swaps : swaps[k].kind = "sell" /\ swaps[k].inAmount = 1000

\* C7.  Once the loop runs, nothing ends the process, and every failed tick
\* is followed by the start of the next tick.
C7_FailedTickNeverFatal ==
    /\ [][pc \notin {"boot", "sync"} => pc' # "exited"]_vars
    /\ (pc = "catch") ~> (pc = "tick")

C7_Witness ==
    /\ pc = "catch"
    /\ \E k \in DOMAIN swaps : swaps[k].state = "err"

All429 == \A k \in DOMAIN rHistory : rHistory[k].kind = "status429"

\* C8.  The k-th backoff wait of a call is min(1000 * 2^(k-1), 10000) ms, so
\* 1000, 2000, 4000 for maxRetries = 3; and when every response is a 429,
\* the call goes on until request maxRetries + 1 and ends there with the
\* 'Rate limit exceeded' failure.
C8_BackoffSchedule ==
    /\ \A k \in DOMAIN rSleeps :
         rSleeps[k] = IF 1000 * 2 ^ (k - 1) < 10000 THEN 1000 * 2 ^ (k - 1)
                      ELSE 10000
    /\ rRequests = Len(rHistory)
    /\ rRequests <= rMax + 1
    /\ All429 =>
         /\ rRequests <= rMax => rPc \in {"head", "fetch"}
         /\ rRequests = rMax + 1 =>
                /\ rPc = "thrown"
                /\ rError = "RateLimitExceeded"
                /\ Len(rSleeps) = rMax

C8_Witness ==
    /\ rFn = "getSwapTransaction"
    /\ rMax = 3
    /\ All429
    /\ rPc = "thrown"
    /\ rError = "RateLimitExceeded"
    /\ rRequests = 4
    /\ rSleeps = <<1000, 2000, 4000>>

\* C9.  A response that is neither a success nor a 429 ends the call at
\* once: the failure is thrown to the caller, with no further sleep or
\* request.
C9_OnlyRateLimitRetried ==
    (rHistory # <<>> /\ rHistory[Len(rHistory)].kind \notin {"ok", "status429"})
        => rPc = "thrown"

RECURSIVE SumReported(_)
SumReported(units) ==
    IF Len(units) = 0 THEN 0
    ELSE (IF Head(units) = Unparsed THEN 0 ELSE Head(units))
         + SumReported(Tail(units))

\* C10.  When both enumerations succeed, getTokenBalanceByMint returns the
\* sum of the balances reported under the standard program plus those
\* reported under the Token-2022 program, 0 when there is no account.
C10_BalanceIsSumOfBothVariants ==
    (bPc = "done" /\ bStd.ok /\ bExt.ok) =>
        /\ bResult.ok
        /\ bResult.total = SumReported(bStd.value) + SumReported(bExt.value)

C10_Witness ==
    /\ bPc = "done"
    /\ bStd = [ok |-> TRUE, value |-> <<600>>]
    /\ bExt = [ok |-> TRUE, value |-> <<400>>]
    /\ bResult = [ok |-> TRUE, total |-> 1000]

\* Swaps submitted by the engine that can still land: those of this tick and
\* those left behind by earlier ticks.
SwapsInFlight == Cardinality(InFlight) + Cardinality(orphans)

\* C11.  At any time at most one swap submitted by the engine is in flight:
\* no swap is submitted while an earlier one can still land, also after a
\* tick that failed between submission and confirmation.
C11_SingleSwapInFlight == SwapsInFlight <= 1

\* Positions of the loop at which it waits for a getQuote /
\* getSwapTransaction call to settle.
AwaitingCall == pc \in {"buy_quote", "sell_quote", "exec_quote", "exec_swap"}

\* C12.  Ticks never overlap: a tick starts only from the completed sleep of
\* the tick before it (or from start-up), with no call of the earlier tick
\* outstanding; a request of a retried call is issued only while the loop
\* waits for that very call, never by a task running beside the loop.
C12_TicksNeverOverlap ==
    /\ [](~AwaitingCall => rPc = "idle")
    /\ [][(pc' = "tick" /\ pc # "tick") =>
              (pc \in {"sync", "sleep"} /\ rPc = "idle")]_vars
    /\ [][rRequests' > rRequests => (AwaitingCall /\ pc' = pc)]_vars
    /\ [][(pc = "sleep" /\ pc' # pc) =>
              (pc' = "tick" /\ events' = <<>> /\ swaps' = <<>>)]_vars

C12_Witness ==
    /\ pc = "tick"
    /\ lastOk = "buy"
    /\ orphans = {}
    /\ rPc = "idle"
    /\ [to |-> "rpc", carries |-> "signed_tx"] \in sent

ExecOpNames ==
    <<"executeSwapOnce", "getQuote", "getSwapTransaction", "sendRawTransaction",
      "getLatestBlockhash", "confirmTransaction">>

IsExecEvent(e) ==
    /\ e.side \in {"buy", "sell"}
    /\ \E n \in DOMAIN ExecOpNames : ExecOpNames[n] = e.op

\* The calls of this tick's executeSwapOnce, in order (empty if it was not
\* called).
ExecCalls ==
    IF Triggered
    THEN LET k == CHOOSE i \in DOMAIN events : events[i].op = "executeSwapOnce"
         IN SelectSeq(SubSeq(events, k, Len(events)), IsExecEvent)
    ELSE <<>>

Appended(op) ==
    /\ Len(events') = Len(events) + 1
    /\ events'[Len(events')].op = op
    /\ events'[Len(events')].side \in {"buy", "sell"}

\* C13.  A call of executeSwapOnce makes its calls in the order quote, swap
\* build, submission, confirmation, each at most once: the transaction is
\* submitted only after both services answered, at most one transaction is
\* submitted, the confirmation is asked for only after an accepted
\* submission, and a rejected submission ends the call as a failure with no
\* confirmation call.
C13_OneSubmissionPerCall ==
    /\ [](/\ Len(ExecCalls) <= Len(ExecOpNames)
          /\ \A n \in DOMAIN ExecCalls : ExecCalls[n].op = ExecOpNames[n]
          /\ Cardinality(Submissions) <= 1
          /\ Len(swaps) <= Cardinality(Submissions)
          /\ (Submissions # {} /\ swaps = <<>>) =>
                 /\ pc \in {"catch", "sleep"}
                 /\ events[Len(events)].op = "sendRawTransaction"
          /\ pc \in {"exec_blockhash", "exec_confirm"} => Len(swaps) = 1)
    /\ [][Appended("sendRawTransaction") =>
              /\ pc = "exec_swap"
              /\ rFn = "getSwapTransaction"
              /\ rPc = "returned"
              /\ execQuote # NoQuote
              /\ rArg.quoteResponse = execQuote]_vars
    /\ [][(Appended("getLatestBlockhash") \/ Appended("confirmTransaction")) =>
              (Len(swaps) = 1 /\ Cardinality(Submissions) = 1)]_vars

C13_Witness ==
    /\ Submissions # {}
    /\ swaps = <<>>
    /\ pc = "catch"
    /\ Len(ExecCalls) = 4

\* C14.  When the confirmation of the submitted swap reports an execution
\* error, executeSwapOnce throws 'Transaction failed' with that error and the
\* tick goes to its error handler; from then on the tick makes no call at
\* all (no quote, plan or submission), and the engine acts again only in the
\* next tick, which starts by reading the balance.
C14_OnChainFailureIsTerminal ==
    /\ [][(/\ pc = "exec_confirm"
           /\ swaps[Len(swaps)].state = "err"
           /\ events' # events) =>
              (pc' = "catch" /\ tickError' = "TransactionFailed")]_vars
    /\ [](tickError = "TransactionFailed" =>
              /\ pc \in {"catch", "sleep"}
              /\ Len(swaps) = 1
              /\ swaps[1].state = "err"
              /\ Cardinality(Submissions) = 1
              /\ events[Len(events)].op = "confirmTransaction")
    /\ [][tickError = "TransactionFailed" =>
              \/ events' = events /\ swaps' = swaps /\ sent' = sent
              \/ pc' = "tick" /\ events' = <<>> /\ tokenBalanceUnits' = -1]_vars

C14_Witness ==
    /\ tickError = "TransactionFailed"
    /\ pc = "sleep"
    /\ swaps[1].kind = "sell"
    /\ liveAtRead = ChainTotal

\* C15.  closeATA returns true only when its close transaction was submitted
\* and the confirmation reported no error (the account is then closed); it
\* returns false, and never throws, when the account no longer exists, when
\* the balance it re-reads is not zero, when the submission is rejected, and
\* when the confirmation reports an error.
C15_CloseATAResult ==
    /\ cResult \in {"none", "true", "false"}
    /\ \A i \in DOMAIN cLog :
         /\ cLog[i].result \in {"true", "false"}
         /\ cLog[i].result = "true" => (cLog[i].existed /\ cLog[i].submitted)
         /\ ~cLog[i].existed => cLog[i].result = "false"
    /\ cPc = "done" =>
         /\ cResult = "true" => (cTx = "ok" /\ acct[cProgram] = Absent)
         /\ cTx \in {"rejected", "err"} => cResult = "false"
         /\ (cExisted /\ acct[cProgram] # Absent /\ acct[cProgram] > 0) =>
                (cResult = "false" /\ cTx = "none")

C15_Witness ==
    /\ cPc = "done"
    /\ cCaller = "harness"
    /\ cProgram = TOKEN_2022_PROGRAM_ID
    /\ cTx = "ok"
    /\ cResult = "true"

\* C16.  closeATA on an account that is already closed, under either program
\* variant, returns false, does not throw and submits nothing, however often
\* it is called.
C16_CloseATAIdempotentOnClosed ==
    /\ cResult # "threw"
    /\ \A i \in DOMAIN cLog :
         ~cLog[i].existed =>
             /\ cLog[i].result = "false"
             /\ ~cLog[i].submitted

C16_Witness ==
    /\ Len(cLog) = 2
    /\ cProgram = TOKEN_2022_PROGRAM_ID
    /\ \A i \in DOMAIN cLog : ~cLog[i].existed /\ cLog[i].result = "false"
    /\ [to |-> "rpc", carries |-> "signed_tx"] \notin sent

InCleanup == pc \in {"close_std", "close_ext", "close_send"}

\* C17.  A failure of the token-account cleanup after a confirmed sell never
\* makes the sell a failure: in the strategy loop a tick that is in its
\* cleanup goes on to its sleep and not to the tick's error handler, whatever
\* the lookups and the close submission do; and swapTokenToSOL, once it has
\* called closeATA, returns success with the signature of the sell whatever
\* closeATA returned.
C17_CleanupNeverFailsSell ==
    /\ [][InCleanup =>
              /\ pc' \in {pc, "close_ext", "close_send", "sleep"}
              /\ tickError' = "none"]_vars
    /\ [](InCleanup =>
              /\ Len(swaps) = 1
              /\ swaps[1].kind = "sell"
              /\ swaps[1].state = "ok")
    /\ []((sPc = "done" /\ cLog # <<>>) =>
              /\ sResult.success
              /\ sResult.signature = "sellSignature")
    /\ [](sPc = "closing" => cResult # "threw")

C17_Witness ==
    /\ sPc = "done"
    /\ cTx = "rejected"
    /\ cLog = <<[existed |-> TRUE, submitted |-> TRUE, result |-> "false"]>>
    /\ sResult.success

\* Whether every setting has a usable value: the token address and the
\* private key are usable, the trade size is a positive integer, the token
\* decimals are unset or an integer the price computation accepts, and each
\* threshold is unset or a number.
SettingsValid(e) ==
    /\ e.QUOTE_TOKEN_ADDRESS \notin {"", "invalid"}
    /\ e.PRIVATE_KEY \notin {"", "invalid"}
    /\ IsDigits(e.IN_AMOUNT) /\ BigIntOf(e.IN_AMOUNT) > 0
    /\ \/ ~Truthy(e.QUOTE_TOKEN_DECIMALS)
       \/ /\ IsDigits(e.QUOTE_TOKEN_DECIMALS)
          /\ ~pow10Throws(BigIntOf(e.QUOTE_TOKEN_DECIMALS))
    /\ ~Truthy(e.BUY_BELOW_SOL) \/ IsSolAmount(e.BUY_BELOW_SOL)
    /\ ~Truthy(e.SELL_ABOVE_SOL) \/ IsSolAmount(e.SELL_ABOVE_SOL)

\* C18.  With a missing or invalid setting the process exits at start-up: it
\* never gets past the reading of the settings, so no tick runs with an
\* invalid setting.
C18_InvalidSettingIsFatal ==
    ~SettingsValid(env) => pc \in {"boot", "exited"}

\* Whether numerator * 10^scale can be formed in the model's integers.
ProductInRange(numerator, scale) ==
    scale <= 9 /\ numerator <= 2147483647 \div pow10(scale)

\* Whether q is the integer quotient (numerator * 10^scale) / divisor, for
\* divisor > 0, wherever the product can be formed.
IsScaledQuotient(q, numerator, scale, divisor) ==
    ProductInRange(numerator, scale) =>
        q = (numerator * pow10(scale)) \div divisor

\* The tick has computed its price from the buy quote / the sell quote.
BuyChecked == ~holding /\ checkQuote # NoQuote /\ price # -1
SellChecked == holding /\ checkQuote # NoQuote /\ price # -1

\* executeSwapOnce was called for this side with this amount.
Fires(side, amount) ==
    /\ pc = "exec_quote"
    /\ \E i \in DOMAIN events : events[i] = Ev("executeSwapOnce", side, amount)

\* The example of the buy check: trade size 100,000,000, the quote gives
\* 66,726,000 units of a 6-decimal token, buy threshold 1,499,000,000.
BuyExample ==
    /\ inAmountLamports = 100000000
    /\ checkQuote.inAmount = ToDecString(100000000)
    /\ checkQuote.outAmount = ToDecString(66726000)
    /\ tokenDecimals = 6
    /\ buyBelowLamportsPerToken = 1499000000

\* C19.  The price of a buy check is the integer quotient
\* (quote.inAmount * 10^decimals) / quote.outAmount (0 when the quote gives
\* no tokens); the buy fires exactly
\* when that price is at or below the buy threshold; and in the example
\* (inAmount 100000000, outAmount 66726000, 6 decimals, threshold
\* 1,499,000,000) the price is 1,498,666 and the buy fires.
C19_BuyPriceIsQuotient ==
    BuyChecked =>
        /\ IF BigIntOf(checkQuote.outAmount) > 0
           THEN IsScaledQuotient(price, BigIntOf(checkQuote.inAmount), tokenDecimals,
                                 BigIntOf(checkQuote.outAmount))
           ELSE price = 0
        /\ Fires("buy", env.IN_AMOUNT) <=> price <= buyBelowLamportsPerToken
        /\ BuyExample => price = 1498666 /\ Fires("buy", ToDecString(100000000))

C19_Witness ==
    /\ BuyChecked
    /\ BuyExample
    /\ Fires("buy", ToDecString(100000000))

\* The example of the sell check: 500,000,000 units held of a 6-decimal
\* token, the quote for all of them gives 850,000,000 lamports.
SellExample ==
    /\ tokenBalanceUnits = 500000000
    /\ checkQuote.inAmount = ToDecString(500000000)
    /\ checkQuote.outAmount = ToDecString(850000000)
    /\ tokenDecimals = 6

\* C20.  The price of a sell check is the integer quotient
\* (quote.outAmount * 10^decimals) / quote.inAmount; the sell of the whole
\* balance fires exactly when that price is at or above the sell threshold;
\* and in the example (500,000,000 units held, inAmount 500000000, outAmount
\* 850000000, 6 decimals) the price is exactly 1,700,000, so the sell fires
\* when the threshold is 1,700,000 or lower.
C20_SellPriceIsQuotient ==
    SellChecked =>
        /\ BigIntOf(checkQuote.inAmount) > 0 =>
               IsScaledQuotient(price, BigIntOf(checkQuote.outAmount), tokenDecimals,
                                BigIntOf(checkQuote.inAmount))
        /\ Fires("sell", SellAllAmount(tokenBalanceUnits))
               <=> price >= sellAboveLamportsPerToken
        /\ SellExample =>
               /\ price = 1700000
               /\ sellAboveLamportsPerToken <= 1700000
                      => Fires("sell", ToDecString(500000000))

C20_Witness ==
    /\ SellChecked
    /\ SellExample
    /\ sellAboveLamportsPerToken = 1700000
    /\ Fires("sell", ToDecString(500000000))

\* The calls of a tick that belong to a trade: a quote, the planning of a
\* swap, its submission.
TradeOps == {"getQuote", "executeSwapOnce", "getSwapTransaction",
             "sendRawTransaction", "confirmTransaction"}

\* The tick found no position and read a SOL balance below the trade size.
InsufficientBalance ==
    /\ BalanceRead
    /\ ~holding
    /\ solBalance # -1
    /\ solBalance < inAmountLamports

\* C21.  A NO_POSITION tick whose SOL balance is less than the trade size is
\* a skip and not an error: it requests no quote, plans and submits no swap,
\* does not enter the tick's error handler, and goes on to the sleep of the
\* loop.
C21_InsufficientBalanceSkips ==
    InsufficientBalance =>
        /\ pc = "sleep"
        /\ tickError = "none"
        /\ \A i \in DOMAIN events : events[i].op \notin TradeOps
        /\ events[Len(events)].op = "getBalance"
        /\ checkQuote = NoQuote /\ execQuote = NoQuote /\ swaps = <<>>
        /\ rPc = "idle" /\ rRequests = 0

C21_Witness ==
    /\ InsufficientBalance
    /\ pc = "sleep"
    /\ solBalance = inAmountLamports - 1

\* One iteration of the retry loop of fn as a function of the loop's state
\* [attempt, sleeps, requests, outcome] and the response it receives.
RetryIteration(fn, maxRetries, loop, resp) ==
    LET delayMs == IF fn = "getQuote" THEN getQuoteDelayMs(loop.attempt)
                   ELSE getSwapTransactionDelayMs(loop.attempt)
        step == IF fn = "getQuote"
                THEN getQuoteAttempt(loop.attempt, maxRetries, resp)
                ELSE getSwapTransactionAttempt(loop.attempt, maxRetries, resp)
    IN [attempt |-> IF step.next = "continue" THEN loop.attempt + 1
                    ELSE loop.attempt,
        sleeps |-> IF loop.attempt > 0 THEN Append(loop.sleeps, delayMs)
                   ELSE loop.sleeps,
        requests |-> loop.requests + 1,
        outcome |-> CASE step.next = "return" -> "returned"
                      [] step.next = "throw" -> step.error
                      [] OTHER -> "running"]

\* What a call of fn does on a sequence of responses: the number of requests,
\* the delays slept and the outcome ("returned", or the kind of the error).
RetryRun(fn, maxRetries, responses) ==
    LET run[i \in 0..Len(responses)] ==
            IF i = 0
            THEN [attempt |-> 0, sleeps |-> <<>>, requests |-> 0,
                  outcome |-> "running"]
            ELSE CHOOSE next \in {RetryIteration(fn, maxRetries, loop, responses[i])
                                     : loop \in {run[i - 1]}} : TRUE
        end == run[Len(responses)]
    IN [requests |-> end.requests, sleeps |-> end.sleeps, outcome |-> end.outcome]

\* The call of the harness has ended; what it did.
RetryEnded == rCaller = "harness" /\ rPc \in {"returned", "thrown"}
RetryObserved ==
    [requests |-> rRequests, sleeps |-> rSleeps,
     outcome |-> IF rPc = "returned" THEN "returned" ELSE rError]

\* C23.  getSwapTransaction follows the retry policy of getQuote: on the
\* sequence of responses that a call of either function received, the other
\* function makes the same number of requests, sleeps the same delays and
\* ends with the same kind of outcome.
C23_SamePolicyForSwapBuild ==
    RetryEnded =>
        /\ RetryRun("getQuote", rMax, rHistory) = RetryObserved
        /\ RetryRun("getSwapTransaction", rMax, rHistory) = RetryObserved

C23_Witness ==
    /\ RetryEnded
    /\ rFn = "getSwapTransaction"
    /\ Len(rSleeps) >= 2
    /\ rHistory[1].kind = "status429"
    /\ \E k \in DOMAIN rHistory : rHistory[k].kind = "networkError"
    /\ rError = "httpError"
    /\ RetryRun("getQuote", rMax, rHistory).outcome = "httpError"

\* A call of getQuote or getSwapTransaction is running or has just ended.
InCall == rPc \in {"head", "fetch", "returned", "thrown"}

\* An earlier call of the sequence was rate limited.
RateLimitedBefore == \E k \in DOMAIN rCalls : rCalls[k].retries > 0

\* C24.  The retry policy keeps nothing between calls.  Whatever the calls
\* before it received, a call of getQuote or getSwapTransaction makes its
\* first request at attempt 0 without a delay, its k-th retry sleeps the
\* k-th delay of the schedule, and it gives up on rate limiting only after
\* maxRetries retries of its own.
C24_RetryStatelessBetweenCalls ==
    InCall =>
        /\ rRequests = 0 => rAttempt = 0 /\ rSleeps = <<>>
        /\ Len(rSleeps) \in {rAttempt - 1, rAttempt}
        /\ Len(rSleeps) <= rMax
        /\ \A k \in DOMAIN rSleeps :
               rSleeps[k] = Min(BackoffBaseMs * 2 ^ (k - 1), BackoffCapMs)
        /\ rPc = "thrown" /\ rError = "RateLimitExceeded" =>
               rRequests = rMax + 1 /\ Len(rSleeps) = rMax

C24_Witness ==
    /\ rCalls # <<>>
    /\ rCalls[1].outcome = "RateLimitExceeded"
    /\ rCalls[1].retries = MaxRetriesArg
    /\ rPc = "returned"
    /\ rFn # rCalls[1].fn
    /\ rMax = DefaultMaxRetries
    /\ rRequests = rMax + 1
    /\ rSleeps[1] = BackoffBaseMs

\* The requests made to the swap-build service.
SwapRequestsSent == {r \in sent : r.to = "swap"}

\* C25.  The swap-build request holds the field prioritizationFeeLamports,
\* with priorityLevel 'veryHigh' and maxLamports equal to the ceiling, exactly
\* when a nonzero ceiling was passed; when the ceiling is left out or is zero
\* the request has no such field.
C25_PriorityFeeFieldOnlyWithCeiling ==
    rFn = "getSwapTransaction" =>
        LET fee == rArg.priorityFeeLamports
        IN \A r \in SwapRequestsSent :
             /\ "prioritizationFeeLamports" \in DOMAIN r
                    <=> (fee.supplied /\ fee.lamports # 0)
             /\ "prioritizationFeeLamports" \in DOMAIN r =>
                    r.prioritizationFeeLamports =
                        [priorityLevelWithMaxLamports |->
                             [maxLamports |-> fee.lamports,
                              priorityLevel |-> "veryHigh"]]

C25_Witness ==
    /\ rFn = "getSwapTransaction"
    /\ rArg.priorityFeeLamports = Ceiling(0)
    /\ rPc = "returned"
    /\ SwapRequestsSent = {[to |-> "swap", carries |-> "public_key"]}

\* The tick has planned a swap: getSwapTransaction was called with execQuote.
SwapPlanned ==
    \E i \in DOMAIN events : events[i].op = "getSwapTransaction"

\* C26.  The swap of a triggered tick is planned from the quote whose price
\* the tick compared with the threshold: the quote handed to
\* getSwapTransaction is the tick's buyQuote / sellQuote, and no swap is
\* planned from a quote whose price was not checked.
C26_SwapPlannedFromAcceptedQuote ==
    SwapPlanned => execQuote = checkQuote

\* The buy quote of the tick reports no output tokens.
BuyQuoteWithoutOutput ==
    /\ ~holding
    /\ checkQuote # NoQuote
    /\ BigIntOf(checkQuote.outAmount) <= 0

\* C27.  A buy quote whose outAmount is zero never triggers a buy: a
\* NO_POSITION tick whose quote reports no output tokens submits no swap,
\* whatever the buy threshold.
C27_NoBuyOnZeroOutput ==
    BuyQuoteWithoutOutput => Submissions = {}

\* C22.  After every tick, successful or failed, the loop sleeps
\* max(0, checkIntervalMs - elapsed), elapsed counted from the start of that
\* tick: the sleep is never negative, a tick that took checkIntervalMs or
\* longer is followed by the next tick with no sleep at all, and the
\* iteration after a sleep is always the next tick.
C22_SleepIsRestOfInterval ==
    [][/\ pc = "sleep" /\ pc' # "sleep" =>
            /\ pc' = "tick"
            /\ sleepFor' >= 0
            /\ elapsed < intervalMs => sleepFor' = intervalMs - elapsed
            /\ elapsed >= intervalMs => sleepFor' = 0
            /\ elapsed' = 0
       /\ pc' = "tick" /\ pc \notin {"tick", "sync"} => pc = "sleep"
       /\ pc = "catch" /\ pc' # "catch" => pc' = "sleep"]_vars

C22_Witness ==
    /\ pc = "tick"
    /\ sleepFor = 0
    /\ lastOk = "sell"

\* executeSwapOnce is waiting for the confirmation of the swap it sent.
AwaitingConfirmation == pc = "exec_confirm"

\* C28.  The wait for the confirmation of a submitted swap ends with the
\* validity window of the transaction that was signed: confirmTransaction is
\* given the lastValidBlockHeight of that transaction, so the wait is over
\* exactly when the transaction can no longer land.
C28_ConfirmationBoundedByPlanWindow ==
    AwaitingConfirmation =>
        /\ latestBlockhash = swaps[Len(swaps)].lastValidBlockHeight
        /\ swaps[Len(swaps)].state = "expired" => blockHeight > latestBlockhash

\* The cleanup of this tick sent a close transaction; it waited for it.
CloseSubmitted ==
    \E i \in DOMAIN events : events[i] = Ev("sendRawTransaction", "close", Undefined)
CloseConfirmed ==
    \E i \in DOMAIN events : events[i].op = "confirmTransaction"
                               /\ events[i].side = "close"

\* C29.  After a successful sell the cleanup of the loop re-reads the emptied
\* token account and, when its balance is exactly zero, submits a close
\* instruction and confirms it before the tick ends, so that a close that
\* fails on-chain is seen within the tick.
C29_CloseConfirmedWithinTick ==
    /\ pc = "close_send" => closeState.shouldClose /\ acct[closeState.tokenProgramId] = 0
    /\ pc = "sleep" /\ CloseSubmitted => CloseConfirmed

\* The positions in this tick's events of the cleanup's reads of the token
\* account, and the read each program variant is looked up with.
CleanupReads ==
    {i \in DOMAIN events : events[i].op \in {"getAccount", "getAccountInfo"}}
CleanupReadOf(program) ==
    IF program = TOKEN_PROGRAM_ID THEN "getAccount" ELSE "getAccountInfo"

\* closeATA is past its lookup, or has submitted its close transaction.
closeATAPastLookup == cPc \in {"blockhash", "send", "confirm"} \/ cTx # "none"

\* C30.  A close transaction is built and submitted only when the cleanup's
\* own read of the token account, made after the confirmed sell, returned a
\* balance of exactly zero: no close for an account that is absent,
\* unreadable, too short or not empty; and the close names the program
\* variant whose lookup returned that zero.
C30_CloseOnlyAfterZeroRead ==
    /\ (pc = "close_send" \/ CloseSubmitted) =>
         /\ closeState.shouldClose
         /\ closeState.balance = 0
         /\ \E i \in CleanupReads :
              /\ \A j \in CleanupReads : j <= i
              /\ events[i].op = CleanupReadOf(closeState.tokenProgramId)
              /\ \E j \in 1..(i - 1) : /\ events[j].op = "confirmTransaction"
                                       /\ events[j].side = "sell"
    /\ closeATAPastLookup => cRead = 0

C30_Witness ==
    /\ CloseSubmitted
    /\ closeState.tokenProgramId = TOKEN_2022_PROGRAM_ID
    /\ Len(SelectSeq(events, LAMBDA e : e.op \in {"getAccount", "getAccountInfo"})) = 2

\* The cleanup of the token account has been entered in this tick.
CleanupAttempted ==
    \/ pc \in {"close_std", "close_ext", "close_send"}
    \/ CleanupReads # {}
    \/ \E i \in DOMAIN events : events[i].side = "close"

\* The confirmation of this tick's sell, as a position in the tick's events.
SellConfirmations ==
    {i \in DOMAIN events : /\ events[i].op = "confirmTransaction"
                           /\ events[i].side = "sell"}

\* C31.  The loop attempts the account cleanup only after a sell swap whose
\* confirmation reported success in the same tick: never after a buy, never
\* after a sell that failed at its quote, plan, submission or confirmation,
\* and never in a tick whose sell threshold was not met.
C31_CleanupOnlyAfterConfirmedSell ==
    CleanupAttempted =>
        /\ holding
        /\ tokenBalanceUnits > 0
        /\ price # -1
        /\ SellTrigger(price)
        /\ tickError = "none"
        /\ Len(swaps) = 1
        /\ swaps[1].kind = "sell"
        /\ swaps[1].state = "ok"
        /\ Cardinality(SellConfirmations) = 1
        /\ \A i \in DOMAIN events :
             (events[i].side = "close" \/ i \in CleanupReads) =>
                 \E j \in SellConfirmations : j < i
        /\ \A i \in DOMAIN events : events[i].side # "buy"

C31_Witness ==
    /\ pc = "close_std"
    /\ swaps[Len(swaps)].kind = "sell"
    /\ swaps[Len(swaps)].state = "ok"

\* C32.  Every call of getQuote or getSwapTransaction with maxRetries >= 0
\* ends, with a response or a thrown error, whatever the responses and
\* errors of its requests are; it has made at most maxRetries + 1 requests
\* and slept at most maxRetries times, never longer than 10000 ms at once.
C32_RetryCallTerminates ==
    /\ [](/\ rMax >= 0
          /\ rRequests <= rMax + 1
          /\ Len(rSleeps) <= rMax
          /\ \A k \in DOMAIN rSleeps : rSleeps[k] <= BackoffCapMs)
    /\ <>(rPc \in {"returned", "thrown"})

C32_Witness ==
    /\ rCaller = "harness"
    /\ rPc = "thrown"
    /\ rMax = MaxRetriesArg
    /\ rRequests = rMax + 1
    /\ Len(rSleeps) = rMax
    /\ rSleeps[rMax] = BackoffCapMs

\* The tick has its price and the price is not on the trading side of the
\* threshold of its branch.
NotTriggeredTick ==
    /\ BalanceRead
    /\ price # -1
    /\ IF holding THEN ~SellTrigger(price) ELSE ~BuyTrigger(price)

QuoteCalls == {i \in DOMAIN events : events[i].op = "getQuote"}

\* C33.  A tick whose trigger condition is not met (NO_POSITION with the
\* price above the buy threshold, HOLDING with the price below the sell
\* threshold) is a pure hold: one call of getQuote, no swap-build request, no
\* submission, no confirmation, no cleanup read and no close; it is not an
\* error, it ends in the sleep, and no token balance changes during it.
C33_UntriggeredTickIsHold ==
    /\ [](NotTriggeredTick =>
            /\ pc = "sleep"
            /\ tickError = "none"
            /\ Cardinality(QuoteCalls) = 1
            /\ \A i \in DOMAIN events :
                 events[i].op \in {"getParsedTokenAccountsByOwner", "getBalance",
                                   "getQuote"}
            /\ swaps = <<>>
            /\ execQuote = NoQuote
            /\ closeState = NoClose)
    /\ [][NotTriggeredTick => acct' = acct]_vars

C33_Witness ==
    /\ NotTriggeredTick
    /\ holding
    /\ pc = "sleep"
    /\ Cardinality(QuoteCalls) = 1

\* The tick is in its error handler and has made nothing but enumerations.
EnumerationFailed ==
    /\ pc = "catch"
    /\ events # <<>>
    /\ \A i \in DOMAIN events : events[i].op = "getParsedTokenAccountsByOwner"

\* C34.  getTokenBalanceByMint never returns a partial sum: it returns a
\* total exactly when both enumerations succeeded, and fails when either one
\* failed.  A tick whose balance read failed makes no buy/sell decision, and
\* the balance a tick decides on comes from both enumerations.
C34_NoPartialBalance ==
    /\ bPc = "done" =>
         /\ bResult.ok <=> (bStd.ok /\ bExt.ok)
         /\ bResult.ok =>
              bResult.total = SumReported(bStd.value) + SumReported(bExt.value)
    /\ EnumerationFailed =>
         /\ ~BalanceRead
         /\ ~holding
         /\ tickError = "RpcError"
         /\ checkQuote = NoQuote
         /\ price = -1
         /\ swaps = <<>>
    /\ (pc # "harness" /\ BalanceRead) =>
         /\ Len(events) >= 2
         /\ events[1].op = "getParsedTokenAccountsByOwner"
         /\ events[2].op = "getParsedTokenAccountsByOwner"
         /\ tokenBalanceUnits = liveAtRead
         /\ holding <=> tokenBalanceUnits > 0

C34_Witness ==
    /\ EnumerationFailed
    /\ Len(events) = 2
    /\ acct[TOKEN_PROGRAM_ID] > 0

\* The elements of a sequence, and how often a mint occurs in a list.
Range(seq) == {seq[k] : k \in DOMAIN seq}
Mints(list) == {list[k].mint : k \in DOMAIN list}

\* The filter-phase quote of token t failed.
FilterQuoteFailed(t) ==
    \E k \in DOMAIN batch.quotes :
        batch.quotes[k] = [mint |-> t, phase |-> "filter", ok |-> FALSE]

BatchEnded == batch.pc \in {"done", "exit1"}

\* The tokens are attempted one by one in the order of tokensToProcess.
AttemptedInOrder ==
    /\ Len(batch.attempted) <= Len(batch.tokensToProcess)
    /\ batch.attempted = SubSeq(batch.tokensToProcess, 1, Len(batch.attempted))
    /\ batch.i = Len(batch.attempted)
    /\ batch.pc \in {"summary", "done", "exit1"} =>
           batch.attempted = batch.tokensToProcess

\* C36 as stated.  A failed swap of one token never aborts the batch: every
\* later token of tokensToProcess is still attempted, in order, and the final
\* summary is always produced.
C36_FailedSwapNeverAbortsBatch ==
    /\ AttemptedInOrder
    /\ (BatchEnded /\ batch.tokensToProcess # <<>>) => batch.summary # NoSummary

\* C36, corrected.  A failed swap of one token never aborts the batch: every
\* later token of tokensToProcess is still attempted, in order, and the final
\* summary is produced unless the getBalance call that precedes it fails;
\* that failure ends the run with exit code 1 and without a summary.
C36_FailedSwapNeverAbortsLoop ==
    /\ AttemptedInOrder
    /\ (batch.pc = "done" /\ batch.tokensToProcess # <<>>) =>
           batch.summary # NoSummary
    /\ batch.pc = "exit1" =>
           /\ batch.error = "getBalance"
           /\ batch.summary = NoSummary

C36_Witness ==
    /\ batch.pc = "done"
    /\ batch.summary # NoSummary
    /\ Len(batch.results) = 2
    /\ ~batch.results[1].success
    /\ batch.results[1].error = "txErr"
    /\ batch.results[2].success

\* C37.  Every detected token account ends in exactly one of skippedTokens
\* and tokensToProcess, results gets exactly one entry per processed token,
\* and the summary satisfies detected = processed + skipped and
\* successful + failed = processed.
C37_BatchCountsAddUp ==
    /\ Mints(batch.skippedTokens) \cup Range(batch.tokensToProcess)
           = {batch.allTokenAccounts[k] : k \in 1..batch.filtered}
    /\ Mints(batch.skippedTokens) \cap Range(batch.tokensToProcess) = {}
    /\ Len(batch.skippedTokens) + Len(batch.tokensToProcess) = batch.filtered
    /\ batch.pc \in {"process", "summary", "exit1"} =>
           batch.filtered = Len(batch.allTokenAccounts)
    /\ Len(batch.results) = batch.i
    /\ \A k \in DOMAIN batch.results :
           batch.results[k].mint = batch.tokensToProcess[k]
    /\ batch.summary # NoSummary =>
           /\ batch.summary.detected = Len(batch.allTokenAccounts)
           /\ batch.summary.detected = batch.summary.processed + batch.summary.skipped
           /\ batch.summary.successful + batch.summary.failed
                  = batch.summary.processed
           /\ batch.summary.processed = Len(batch.results)

C37_Witness ==
    /\ batch.summary # NoSummary
    /\ batch.summary.detected = 3
    /\ batch.summary.skipped = 1
    /\ batch.summary.failed = 1
    /\ batch.summary.successful = 1

\* C38.  For a successful swap the solReceived that swapTokenToSOL reports,
\* and that the batch adds to totalSolReceived, is the wallet's SOL balance
\* after the swap was confirmed minus its SOL balance before the swap was
\* submitted.
C38_SolReceivedIsSwapDelta ==
    \A k \in DOMAIN batch.swapLog :
        batch.swapLog[k].success =>
            batch.swapLog[k].solReceived
                = batch.swapLog[k].solAtConfirm - batch.swapLog[k].solAtSubmit

\* C39.  buyFixedTokensOnce calls sendRawTransaction at most once in a run,
\* and not at all when the SOL balance is below the probe amount, when the
\* probe quote's output is zero, when the lamports estimated from the probe
\* (desired units * probe inAmount / probe outAmount, truncated) are zero, or
\* when the SOL balance is below that estimate: in each of these cases the
\* run has ended in process.exit(1).
OnceBalanceRead == once.solBalance # Absent

OnceProbed == once.probeOut # Absent

OnceEstimate ==
    (once.desiredTokenUnits * once.probeInAmount) \div once.probeOut

OnceRefused == once.submitted = 0 /\ once.pc = "exit1" /\ once.error # "none"

C39_BuyOnceSubmitsAtMostOnce ==
    /\ once.submitted <= 1
    /\ (OnceBalanceRead /\ once.solBalance < once.probeInLamports)
         => OnceRefused
    /\ (OnceProbed /\ once.probeOut = 0) => OnceRefused
    /\ (OnceProbed /\ once.probeOut > 0 /\ OnceEstimate = 0) => OnceRefused
    /\ (OnceProbed /\ once.probeOut > 0 /\ once.solBalance < OnceEstimate)
         => OnceRefused

\* The balance covers the probe, the probe gives a positive estimate, the
\* balance is below the estimate, and the run has exited without a swap.
C39_Witness ==
    /\ OnceProbed
    /\ once.solBalance >= once.probeInLamports
    /\ once.probeOut > 0
    /\ OnceEstimate > 0
    /\ once.solBalance < OnceEstimate
    /\ once.pc = "exit1"
    /\ once.error = "insufficientForEstimate"
    /\ once.submitted = 0

====
